---- MODULE Spec2Model ----
\* Bulk job orchestration and reconciliation engine of the inventory-management
\* app: the import action (remote index, row validation, staged upload, write
\* job), the export action (cancel, read-job submission, retry), and the two
\* clients' poll loops against the status loaders.
EXTENDS Integers, Sequences, FiniteSets, TLC

\* ---------------------------------------------------------------- bounds
\* Largest number of rows in one imported sheet.
MaxRows == 2
\* An export is requested only while fewer bulk operations than this exist.
MaxJobs == 2
\* Largest number of status checks answered after one export request.
MaxPolls == 4

\* Largest number of lines in the result artifact of a read job.
MaxLines == 4

\* ------------------------------------------------------- JavaScript values
\* A JavaScript cell value: undefined, a string (a sequence of one-character
\* strings) or a number (integer part n, frac = it has a fractional part .5).
Undef == [t |-> "undef", s |-> << >>, n |-> 0, frac |-> FALSE]

Str(chars) == [t |-> "str", s |-> chars, n |-> 0, frac |-> FALSE]

Num(k) == [t |-> "num", s |-> << >>, n |-> k, frac |-> FALSE]

NumFrac(k) == [t |-> "num", s |-> << >>, n |-> k, frac |-> TRUE]

UpperChars == <<"A","B","C","D","E","F","G","H","I","J","K","L","M",
                "N","O","P","Q","R","S","T","U","V","W","X","Y","Z">>

LowerChars == <<"a","b","c","d","e","f","g","h","i","j","k","l","m",
                "n","o","p","q","r","s","t","u","v","w","x","y","z">>

DigitChars == <<"0","1","2","3","4","5","6","7","8","9">>

ToLowerChar(c) ==
    IF \E i \in 1..26 : UpperChars[i] = c
    THEN LowerChars[CHOOSE i \in 1..26 : UpperChars[i] = c]
    ELSE c

\* String.prototype.toLowerCase
ToLowerCase(chars) == [i \in 1..Len(chars) |-> ToLowerChar(chars[i])]

IsSpace(c) == c = " "

RECURSIVE TrimStart(_)
TrimStart(chars) ==
    IF chars # << >> /\ IsSpace(Head(chars)) THEN TrimStart(Tail(chars)) ELSE chars

RECURSIVE TrimEnd(_)
TrimEnd(chars) ==
    IF chars # << >> /\ IsSpace(chars[Len(chars)])
    THEN TrimEnd(SubSeq(chars, 1, Len(chars) - 1))
    ELSE chars

\* String.prototype.trim
Trim(chars) == TrimEnd(TrimStart(chars))

IsDigit(c) == \E i \in 1..10 : DigitChars[i] = c

DigitVal(c) == (CHOOSE i \in 1..10 : DigitChars[i] = c) - 1

RECURSIVE NatToChars(_)
NatToChars(k) ==
    IF k < 10 THEN <<DigitChars[k + 1]>>
    ELSE NatToChars(k \div 10) \o <<DigitChars[(k % 10) + 1]>>

\* String(v): the text JavaScript converts a value to.
JsString(v) ==
    CASE v.t = "str" -> v.s
      [] v.t = "undef" -> <<"u","n","d","e","f","i","n","e","d">>
      [] OTHER ->
           (IF v.n < 0 THEN <<"-">> \o NatToChars(0 - v.n) ELSE NatToChars(v.n))
           \o (IF v.frac THEN <<".","5">> ELSE << >>)

\* JavaScript truthiness of a cell value.
Truthy(v) ==
    CASE v.t = "str" -> v.s # << >>
      [] v.t = "undef" -> FALSE
      [] OTHER -> v.n # 0 \/ v.frac

NaN == [nan |-> TRUE, v |-> 0]

Int32(k) == [nan |-> FALSE, v |-> k]

RECURSIVE DigitPrefix(_, _)
\* The value of the longest digit prefix of chars, continuing from acc.
DigitPrefix(chars, acc) ==
    IF chars # << >> /\ IsDigit(Head(chars))
    THEN DigitPrefix(Tail(chars), acc * 10 + DigitVal(Head(chars)))
    ELSE acc

\* parseInt(v): leading blanks skipped, an optional sign, then the longest
\* digit prefix; NaN when there is no digit there.
ParseInt(v) ==
    LET txt  == TrimStart(JsString(v))
        neg  == txt # << >> /\ Head(txt) = "-"
        body == IF txt # << >> /\ Head(txt) \in {"-", "+"} THEN Tail(txt) ELSE txt
    IN  IF body = << >> \/ ~IsDigit(Head(body)) THEN NaN
        ELSE Int32(IF neg THEN 0 - DigitPrefix(body, 0) ELSE DigitPrefix(body, 0))

\* ------------------------------------------------------------ remote store
\* The store's locations, as the locations query lists them.
StoreLocations ==
    << [id |-> "L1", name |-> <<"N">>],
       [id |-> "L2", name |-> <<"m","|","N">>] >>

Available(q) == <<[name |-> "available", quantity |-> q]>>

Level(loc, q) == [location |-> loc, quantities |-> Available(q)]

Variant(sku, item, levels) == [sku |-> sku, inventoryItemId |-> item, levels |-> levels]

\* Remote listings of product variants, as sequences of pages.
ListingPaged ==
    << << Variant(Str(<<"A">>), "I1", <<Level("L1", 5), Level("L2", 5)>>),
          Variant(Str(<<"a","|","m">>), "I2", <<Level("L1", 5)>>) >>,
       << Variant(Str(<<"b">>), "I3", <<Level("L1", 5)>>),
          Variant(Undef, "I4", <<Level("L1", 5)>>) >> >>

ListingFolded ==
    << << Variant(Str(<<"A">>), "I1", <<Level("L1", 5), Level("L2", 5)>>),
          Variant(Str(<<"a">>), "I5", <<Level("L1", 7)>>),
          Variant(Str(<<"b">>), "I3", <<[location |-> "L1", quantities |-> << >>]>>) >> >>

ListingSet == {ListingPaged, ListingFolded}

\* ------------------------------------------------------------- input rows
Row(sku, qty, loc) ==
    ("SKU" :> sku) @@ ("Quantity Available" :> qty) @@ ("Inventory Location" :> loc)

\* The rows an imported sheet is made of.
RowSet ==
    { Row(Str(<<"a">>), Str(<<"5">>), Str(<<"n">>)),
      Row(Str(<<"A">>), Num(9), Str(<<"N">>)),
      Row(Str(<<"a">>), Num(9), Str(<<"m","|","N">>)),
      Row(Str(<<"a","|","m">>), Num(9), Str(<<"N">>)),
      Row(Str(<<"a","|","m">>), Num(9), Str(<<"m","|","N">>)),
      Row(Str(<<"z">>), Num(9), Str(<<"N">>)),
      Row(Str(<<"b">>), Num(9), Str(<<"N">>)),
      Row(Str(<<"a">>), Undef, Str(<<"N">>)),
      Row(Str(<<"a">>), Num(9), Undef),
      Row(Str(<<"a">>), Num(5), Undef),
      Row(Str(<<"a">>), Num(9), Str(<<"X">>)),
      Row(Str(<<"S","K","U">>), Num(9), Str(<<"N">>)) }

RECURSIVE SeqsUpTo(_, _)
\* The sequences over S of length at most k.
SeqsUpTo(S, k) ==
    IF k = 0 THEN {<< >>}
    ELSE LET shorter == SeqsUpTo(S, k - 1)
         IN  shorter \cup {Append(q, x) : q \in shorter, x \in S}

LocationChoices == {"ALL_LOCATIONS", "L1", "L2"}

\* ------------------------------------------------------------------ state
VARIABLES
    \* the sheet the import client parsed, the selected location, and the
    \* listing the store holds
    rows, locationId, listing,
    \* the lines of the result artifact the remote system serves for a
    \* completed read job
    exportArtifact,
    \* how many times the sheet has been imported
    importRun,
    \* the webhook request the webhook route is answering, with the app's
    \* secret, the point the action has reached and its answer
    webhook,
    \* the import action's locals
    impPc, allLocations, selectedLocationName, skuMap, hasNextPage, endCursor,
    results, processedCombinations, bulkUpdates, jsonlLines, uploadPath,
    \* the remote requests the import action has issued, in order
    impCalls,
    \* the remote system's bulk operations, by id (1, 2, ...)
    jobs,
    \* the export action's locals, who called it, and the remote requests it
    \* has issued, in order
    expPc, expCaller, expLocationId, expCancelId, expResult, expCalls,
    \* the export page: its fetchers, state and pending timers
    exportFetcher, currentExport, exportProgressVisible, exportPollFetcher,
    exportPollTimer, exportHideTimer, exportToast,
    \* what the export page's polls have seen and done since the last export
    \* request: the remote statuses, the reads of the result artifact, the
    \* downloads
    pollLog, artifactReads, downloads,
    \* the import page: its fetchers, state and pending timers
    importFetcher, validatedResults, finalResults, importProgressVisible,
    importPollFetcher, importPollTimer, importHideTimer,
    \* what the remote system held for the completed write job when the
    \* import page's status check found it: url, result lines, objectCount
    importArtifact

sheetVars == << rows, locationId, listing, exportArtifact, importRun, webhook >>

expLocals == << expPc, expCaller, expLocationId, expCancelId, expResult, expCalls >>

impLocals ==
    << impPc, allLocations, selectedLocationName, skuMap, hasNextPage, endCursor,
       results, processedCombinations, bulkUpdates, jsonlLines, uploadPath, impCalls >>

exportPage ==
    << exportFetcher, currentExport, exportProgressVisible, exportPollFetcher,
       exportPollTimer, exportHideTimer, exportToast, pollLog, artifactReads, downloads >>

importPage ==
    << importFetcher, validatedResults, finalResults, importProgressVisible,
       importPollFetcher, importPollTimer, importHideTimer, importArtifact >>

\* What the import action never touches, and what the export action never touches.
exceptImport == << expLocals, exportPage, importPage >>

exceptExport == << sheetVars, impLocals, exportPage, importPage >>

vars == << sheetVars, impLocals, jobs, expLocals, exportPage, importPage >>

\* No bulk operation id (null).
NoOp == 0

\* ------------------------------------------------------------ remote jobs
ActiveStatuses == {"CREATED", "RUNNING", "CANCELING"}

TerminalStatuses == {"COMPLETED", "FAILED", "CANCELED"}

JobIds == 1..Len(jobs)

ActiveJobs(kind) == {j \in JobIds : jobs[j].kind = kind /\ jobs[j].status \in ActiveStatuses}

\* The remote system accepts a submission: a new operation in status CREATED.
\* The operation remembers which earlier operations were not terminal when it
\* was submitted and had not been sent a cancel request by the submitter.
Submitted(kind, cancelled) ==
    Append(jobs, [ kind |-> kind, status |-> "CREATED",
                   uncancelled |-> {j \in JobIds : jobs[j].status \notin TerminalStatuses}
                                       \ cancelled ])

isAllLocationsMode == locationId = "ALL_LOCATIONS"

EmptyMap == [k \in {} |-> 0]

InitialResults(rs) ==
    [ total |-> Len(rs), updated |-> 0, errors |-> << >>, failedRows |-> << >>,
      skippedRows |-> << >>, bulkOperationId |-> NoOp ]

\* ----------------------------------------------------- remote index builder
\* The levels map of one listed variant: location id -> available quantity.
RECURSIVE LevelsOf(_, _)
LevelsOf(edges, acc) ==
    IF edges = << >> THEN acc
    ELSE LET lvl == Head(edges)
             hasQty == \E j \in 1..Len(lvl.quantities) : lvl.quantities[j].name = "available"
             qtyNode == lvl.quantities[CHOOSE j \in 1..Len(lvl.quantities) :
                            /\ lvl.quantities[j].name = "available"
                            /\ \A h \in 1..(j - 1) : lvl.quantities[h].name # "available"]
         IN  LevelsOf(Tail(edges),
                 IF hasQty
                 THEN [l \in DOMAIN acc \cup {lvl.location} |->
                          IF l = lvl.location THEN qtyNode.quantity ELSE acc[l]]
                 ELSE acc)

\* skuMap.set(key, entry)
MapSet(map, key, entry) ==
    [k \in DOMAIN map \cup {key} |-> IF k = key THEN entry ELSE map[k]]

RECURSIVE IndexPage(_, _)
\* One page of variants folded into the index, in listing order.
IndexPage(edges, map) ==
    IF edges = << >> THEN map
    ELSE LET node == Head(edges)
         IN  IndexPage(Tail(edges),
                 IF Truthy(node.sku)
                 THEN MapSet(map, ToLowerCase(JsString(node.sku)),
                          [ inventoryItemId |-> node.inventoryItemId,
                            levels |-> LevelsOf(node.levels, EmptyMap) ])
                 ELSE map)

\* ------------------------------------------------- row validator/differencer
\* Mutant: the rejected row is not recorded, only its message.
Failed_MessageOnly(acc, i, errorText, reason) ==
    [acc EXCEPT !.results.errors = Append(@, errorText)]

Failed(acc, i, errorText, reason) ==
    [acc EXCEPT
        !.results.errors = Append(@, errorText),
        !.results.failedRows = Append(@, [idx |-> i, row |-> rows[i], reason |-> reason])]

FindLocation_CaseSensitive(sheetLocation) ==
    LET hits == {j \in 1..Len(allLocations) : allLocations[j].name = sheetLocation}
    IN  IF hits = {} THEN 0 ELSE CHOOSE j \in hits : \A h \in hits : j <= h

\* allLocations.find(loc => loc.name.toLowerCase() === sheetLocation.toLowerCase())
FindLocation(sheetLocation) ==
    LET hits == {j \in 1..Len(allLocations) :
                    ToLowerCase(allLocations[j].name) = ToLowerCase(sheetLocation)}
    IN  IF hits = {} THEN 0 ELSE CHOOSE j \in hits : \A h \in hits : j <= h

\* `${skuKey}|${targetLocationName}`
CombinationKey(skuKey, targetLocationName) ==
    skuKey \o <<"|">> \o JsString(targetLocationName)

\* Mutant: the duplicate check never fires.
IsDuplicate_Never(acc, combinationKey) == FALSE

\* processedCombinations.has(combinationKey)
IsDuplicate(acc, combinationKey) == combinationKey \in acc.processedCombinations

\* Mutant: the combination is not remembered.
MarkProcessed_Forget(acc, combinationKey) == acc

\* processedCombinations.add(combinationKey)
MarkProcessed(acc, combinationKey) ==
    [acc EXCEPT !.processedCombinations = @ \cup {combinationKey}]

\* Mutant: the no-op check never fires.
QuantityMatches_Never(currentQty, quantity) == FALSE

\* currentQty === quantity
QuantityMatches(currentQty, quantity) == currentQty = quantity

\* bulkUpdates.push({inventoryItemId, locationId, quantity}); idx remembers the
\* row the diff was queued for.
QueueUpdate(acc, i, inventoryItemId, targetLocationId, quantity) ==
    [acc EXCEPT !.bulkUpdates =
        Append(@, [ idx |-> i, inventoryItemId |-> inventoryItemId,
                    locationId |-> targetLocationId, quantity |-> quantity ])]

NotStockedReason_NotFound == "Variant not found"

\* Line 275: the reason recorded for a SKU without quantity at the location.
NotStockedReason == "SKU don't have this location"

\* Duplicate check, index lookup, no-op check and queueing of one row whose
\* location resolved.
Lookup(acc, i, sku, skuKey, quantity, targetLocationId, targetLocationName) ==
    LET combinationKey == CombinationKey(skuKey, targetLocationName)
    IN  IF IsDuplicate(acc, combinationKey)
        THEN Failed(acc, i, "Skipped SKU: You have identical row having same SKU and location",
                 "You have identical row having same SKU and location")
        ELSE LET seen == MarkProcessed(acc, combinationKey)
             IN  IF skuKey \notin DOMAIN skuMap
                 THEN Failed(seen, i, "Variant not found for SKU", "Variant not found")
                 ELSE LET variantData == skuMap[skuKey]
                      IN  IF targetLocationId \notin DOMAIN variantData.levels
                          THEN Failed(seen, i,
                                   "Skipped SKU: SKU don't have this location (or not stocked)",
                                   NotStockedReason)
                          ELSE IF QuantityMatches(variantData.levels[targetLocationId], quantity)
                          THEN [seen EXCEPT !.results.skippedRows =
                                   Append(@, [idx |-> i, row |-> rows[i],
                                              reason |-> "Quantity already matches"])]
                          ELSE QueueUpdate(seen, i, variantData.inventoryItemId,
                                   targetLocationId, quantity)

\* Line 245: sheetLocation.toLowerCase() !== selectedLocationName.toLowerCase()
LabelMismatch(sheetLocation, name) == ToLowerCase(sheetLocation) # ToLowerCase(name)

\* if (!row["SKU"] || row["SKU"] === "SKU") continue;
IsIgnored(row) == ~Truthy(row["SKU"]) \/ row["SKU"] = Str(<<"S","K","U">>)

\* One iteration of the validation loop, for row i.
ProcessRow(acc, i) ==
    LET row == rows[i]
        sku == Trim(JsString(row["SKU"]))
        skuKey == ToLowerCase(sku)
        quantity == ParseInt(row["Quantity Available"])
        sheetLocationRaw == row["Inventory Location"]
        sheetLocation == IF Truthy(sheetLocationRaw) THEN Trim(JsString(sheetLocationRaw))
                         ELSE << >>
    IN  IF IsIgnored(row) THEN acc
        ELSE IF quantity.nan
        THEN Failed(acc, i, "Skipped SKU: Invalid or missing quantity value",
                 "Invalid or missing quantity value")
        ELSE IF isAllLocationsMode
        THEN IF sheetLocation = << >>
             THEN Failed(acc, i,
                      "Skipped SKU: Inventory Location is required when All Locations is selected",
                      "Inventory Location is required for All Locations mode")
             ELSE LET found == FindLocation(sheetLocation)
                  IN  IF found = 0
                      THEN Failed(acc, i, "Skipped SKU: Location not found in store",
                               "Location not found in store")
                      ELSE Lookup(acc, i, sku, skuKey, quantity.v, allLocations[found].id,
                               Str(allLocations[found].name))
        ELSE IF sheetLocation # << >> /\ selectedLocationName.t = "undef"
        \* selectedLocationName.toLowerCase() throws; the catch records the row
        THEN Failed(acc, i, "Error processing SKU: TypeError", "TypeError")
        ELSE IF sheetLocation # << >> /\ LabelMismatch(sheetLocation, selectedLocationName.s)
        THEN Failed(acc, i, "Skipped SKU: Location in sheet does not match selected location",
                 "Location mismatch")
        ELSE Lookup(acc, i, sku, skuKey, quantity.v, locationId, selectedLocationName)

RECURSIVE ValidateFrom_AbortsOnThrow(_, _)
ValidateFrom_AbortsOnThrow(acc, i) ==
    IF i > Len(rows) THEN acc
    ELSE LET next == ProcessRow(acc, i)
             failed == next.results.failedRows
         IN  IF /\ Len(failed) > Len(acc.results.failedRows)
                /\ failed[Len(failed)].reason = "TypeError"
             THEN next
             ELSE ValidateFrom_AbortsOnThrow(next, i + 1)

RECURSIVE ValidateFrom(_, _)
\* The validation loop from row i on.
ValidateFrom(acc, i) ==
    IF i > Len(rows) THEN acc ELSE ValidateFrom(ProcessRow(acc, i), i + 1)

\* ------------------------------------------------- batch update planner
\* 1 mutation per row for accurate counting and granular error reporting
BATCH_SIZE == 1

JsonLine_Empty(batch) ==
    [ reason |-> "correction", name |-> "available", ignoreCompareQuantity |-> TRUE,
      quantities |-> << >> ]

JsonLine(batch) ==
    [ reason |-> "correction", name |-> "available", ignoreCompareQuantity |-> TRUE,
      quantities |-> batch ]

RECURSIVE PlanBatches(_, _, _)
\* The loop over bulkUpdates: a line is emitted whenever the current batch
\* reaches BATCH_SIZE, and a last one for what is left.
PlanBatches(updates, currentBatch, lines) ==
    IF updates = << >>
    THEN IF Len(currentBatch) > 0 THEN Append(lines, JsonLine(currentBatch)) ELSE lines
    ELSE LET batch == Append(currentBatch, Head(updates))
         IN  IF Len(batch) >= BATCH_SIZE
             THEN PlanBatches(Tail(updates), << >>, Append(lines, JsonLine(batch)))
             ELSE PlanBatches(Tail(updates), batch, lines)

\* --------------------------------------------------------- import action
ImportIdle ==
    /\ impPc = "idle"
    /\ allLocations = << >>
    /\ selectedLocationName = Undef
    /\ skuMap = EmptyMap
    /\ hasNextPage = TRUE
    /\ endCursor = 0
    /\ results = InitialResults(<< >>)
    /\ processedCombinations = {}
    /\ bulkUpdates = << >>
    /\ jsonlLines = << >>
    /\ uploadPath = "none"
    /\ impCalls = << >>

\* Lines 99-115: the request arrives; the locals are fresh.
ImpStart ==
    /\ impPc = "idle"
    /\ impPc' = "locations"
    /\ results' = InitialResults(rows)
    /\ UNCHANGED exceptImport
    /\ UNCHANGED << sheetVars, allLocations, selectedLocationName, skuMap, hasNextPage,
                    endCursor, processedCombinations, bulkUpdates, jsonlLines, uploadPath,
                    impCalls, jobs >>

\* Lines 117-147: the locations query (all-locations mode) or the selected
\* location's name; either response may carry no data.
ImpLocations ==
    /\ impPc = "locations"
    /\ \E hasData \in BOOLEAN :
          /\ allLocations' = IF isAllLocationsMode /\ hasData THEN StoreLocations ELSE << >>
          /\ selectedLocationName' =
                IF ~isAllLocationsMode /\ hasData
                THEN Str(StoreLocations[CHOOSE j \in 1..Len(StoreLocations) :
                                           StoreLocations[j].id = locationId].name)
                ELSE Undef
    /\ impCalls' = Append(impCalls, IF isAllLocationsMode THEN "getLocations" ELSE "getLocation")
    /\ impPc' = "prefetch"
    /\ UNCHANGED exceptImport
    /\ UNCHANGED << sheetVars, skuMap, hasNextPage, endCursor, results,
                    processedCombinations, bulkUpdates, jsonlLines, uploadPath, jobs >>

\* Lines 157-202, one iteration: the page after endCursor is fetched and
\* indexed. The request may throw (the action aborts) or answer without data
\* (nothing is indexed, hasNextPage becomes undefined and the loop ends).
ImpFetchPage ==
    /\ impPc = "prefetch"
    /\ hasNextPage
    /\ impCalls' = Append(impCalls, "getInventoryData")
    /\ \E outcome \in {"data", "nodata", "throw"} :
          \/ /\ outcome = "data"
             /\ skuMap' = IndexPage(listing[endCursor + 1], skuMap)
             /\ hasNextPage' = (endCursor + 1 < Len(listing))
             /\ endCursor' = endCursor + 1
             /\ impPc' = "prefetch"
          \/ /\ outcome = "nodata"
             /\ hasNextPage' = FALSE
             /\ impPc' = "prefetch"
             /\ UNCHANGED << skuMap, endCursor >>
          \/ /\ outcome = "throw"
             /\ impPc' = "threw"
             /\ UNCHANGED << skuMap, hasNextPage, endCursor >>
    /\ UNCHANGED exceptImport
    /\ UNCHANGED << sheetVars, allLocations, selectedLocationName, results,
                    processedCombinations, bulkUpdates, jsonlLines, uploadPath, jobs >>

ImpValidate_AlwaysStages ==
    /\ impPc = "prefetch"
    /\ ~hasNextPage
    /\ LET acc == ValidateFrom([ results |-> results,
                                 processedCombinations |-> processedCombinations,
                                 bulkUpdates |-> bulkUpdates ], 1)
       IN  /\ results' = acc.results
           /\ processedCombinations' = acc.processedCombinations
           /\ bulkUpdates' = acc.bulkUpdates
           /\ impPc' = "stage"
           /\ jsonlLines' = PlanBatches(acc.bulkUpdates, << >>, << >>)
    /\ UNCHANGED exceptImport
    /\ UNCHANGED << sheetVars, allLocations, selectedLocationName, skuMap,
                    hasNextPage, endCursor, uploadPath, impCalls, jobs >>

\* Lines 205-333: the validation loop over every row, the early return when
\* nothing is queued, and the payload lines.
ImpValidate ==
    /\ impPc = "prefetch"
    /\ ~hasNextPage
    /\ LET acc == ValidateFrom([ results |-> results,
                                 processedCombinations |-> processedCombinations,
                                 bulkUpdates |-> bulkUpdates ], 1)
       IN  /\ results' = acc.results
           /\ processedCombinations' = acc.processedCombinations
           /\ bulkUpdates' = acc.bulkUpdates
           /\ impPc' = IF Len(acc.bulkUpdates) = 0 THEN "returned" ELSE "stage"
           /\ jsonlLines' = IF Len(acc.bulkUpdates) = 0 THEN << >>
                            ELSE PlanBatches(acc.bulkUpdates, << >>, << >>)
    /\ UNCHANGED exceptImport
    /\ UNCHANGED << sheetVars, allLocations, selectedLocationName, skuMap,
                    hasNextPage, endCursor, uploadPath, impCalls, jobs >>

PushError(text) == [results EXCEPT !.errors = Append(@, text)]

\* Lines 335-362: the staged upload target is requested.
ImpStage ==
    /\ impPc = "stage"
    /\ impCalls' = Append(impCalls, "stagedUploadsCreate")
    /\ \E outcome \in {"target", "targetNoKey", "userErrors", "noTarget", "throw"} :
          \/ /\ outcome \in {"target", "targetNoKey"}
             /\ uploadPath' = IF outcome = "target" THEN "key" ELSE "undefined"
             /\ impPc' = "upload"
             /\ UNCHANGED results
          \/ /\ outcome = "userErrors"
             /\ results' = PushError("Failed to create upload target")
             /\ impPc' = "returned"
             /\ UNCHANGED uploadPath
          \/ /\ outcome = "noTarget"
             /\ results' = PushError("Failed to get upload target URL")
             /\ impPc' = "returned"
             /\ UNCHANGED uploadPath
          \/ /\ outcome = "throw"
             /\ impPc' = "threw"
             /\ UNCHANGED << results, uploadPath >>
    /\ UNCHANGED exceptImport
    /\ UNCHANGED << sheetVars, allLocations, selectedLocationName, skuMap, hasNextPage,
                    endCursor, processedCombinations, bulkUpdates, jsonlLines, jobs >>

AfterFailedUpload_Trigger == "trigger"

\* Lines 368-371: an upload that is not ok ends the action.
AfterFailedUpload == "returned"

\* Lines 364-371: the payload is posted to the target.
ImpUpload ==
    /\ impPc = "upload"
    /\ impCalls' = Append(impCalls, "upload")
    /\ \E outcome \in {"ok", "notOk", "throw"} :
          \/ /\ outcome = "ok"
             /\ impPc' = "trigger"
             /\ UNCHANGED results
          \/ /\ outcome = "notOk"
             /\ results' = PushError("Upload failed")
             /\ impPc' = AfterFailedUpload
          \/ /\ outcome = "throw"
             /\ impPc' = "threw"
             /\ UNCHANGED results
    /\ UNCHANGED exceptImport
    /\ UNCHANGED << sheetVars, allLocations, selectedLocationName, skuMap, hasNextPage,
                    endCursor, processedCombinations, bulkUpdates, jsonlLines, uploadPath,
                    jobs >>

\* Lines 373-408: the write job is triggered. The remote system runs one
\* bulk mutation at a time and otherwise answers with a user error.
ImpTrigger ==
    /\ impPc = "trigger"
    /\ impCalls' = Append(impCalls, "bulkOperationRunMutation")
    /\ \E outcome \in {"opId", "userErrors", "noId", "throw"} :
          \/ /\ outcome = "opId"
             /\ ActiveJobs("WRITE") = {}
             /\ jobs' = Submitted("WRITE", {})
             /\ results' = [results EXCEPT !.bulkOperationId = Len(jobs) + 1]
             /\ impPc' = "returned"
          \/ /\ outcome = "userErrors"
             /\ results' = PushError("Bulk Mutation Error")
             /\ impPc' = "returned"
             /\ UNCHANGED jobs
          \/ /\ outcome = "noId"
             /\ ActiveJobs("WRITE") = {}
             /\ results' = PushError("Failed to trigger backend bulk operation (No ID returned)")
             /\ impPc' = "returned"
             /\ UNCHANGED jobs
          \/ /\ outcome = "throw"
             /\ impPc' = "threw"
             /\ UNCHANGED << results, jobs >>
    /\ UNCHANGED exceptImport
    /\ UNCHANGED << sheetVars, allLocations, selectedLocationName, skuMap, hasNextPage,
                    endCursor, processedCombinations, bulkUpdates, jsonlLines, uploadPath >>

ImportNext ==
    \/ ImpStart
    \/ ImpLocations
    \/ ImpFetchPage
    \/ ImpValidate
    \/ ImpStage
    \/ ImpUpload
    \/ ImpTrigger

\* ---------------------------------------------------------- remote system
\* The remote system moves an operation on: CREATED -> RUNNING ->
\* COMPLETED or FAILED, and a cancellation in progress to CANCELED.
RemoteAdvance ==
    /\ \E j \in JobIds : \E next \in {"RUNNING", "COMPLETED", "FAILED", "CANCELED"} :
          /\ \/ jobs[j].status = "CREATED" /\ next = "RUNNING"
             \/ jobs[j].status = "RUNNING" /\ next \in {"COMPLETED", "FAILED"}
             \/ jobs[j].status = "CANCELING" /\ next = "CANCELED"
          /\ jobs' = [jobs EXCEPT ![j].status = next]
    /\ UNCHANGED << sheetVars, impLocals, expLocals, exportPage, importPage >>

\* bulkOperationCancel(id): a running operation starts cancelling; any other
\* is left as it is.
Cancelled(id) ==
    IF id \in JobIds /\ jobs[id].status \in {"CREATED", "RUNNING"}
    THEN [jobs EXCEPT ![id].status = "CANCELING"]
    ELSE jobs

\* currentBulkOperation, asked without a type: the most recent bulk query
\* operation, or none.
CurrentBulkOperation ==
    LET reads == {j \in JobIds : jobs[j].kind = "READ"}
    IN  IF reads = {} THEN NoOp ELSE CHOOSE j \in reads : \A h \in reads : h <= j

\* --------------------------------------------------------- export action
NoResult == [userErrors |-> << >>, operationId |-> NoOp]

ExportIdle ==
    /\ expPc = "idle"
    /\ expCaller = "none"
    /\ expLocationId = "none"
    /\ expCancelId = NoOp
    /\ expResult = NoResult
    /\ expCalls = << >>

Call(op, id) == [op |-> op, id |-> id]

\* Lines 211-214: an export request arrives with its location.
ExpBegin(caller, loc) ==
    /\ expPc = "idle"
    /\ Len(jobs) < MaxJobs
    /\ expPc' = "lookup"
    /\ expCaller' = caller
    /\ expLocationId' = loc
    /\ expCancelId' = NoOp
    /\ expResult' = NoResult
    /\ expCalls' = << >>

\* Lines 235-249: the current operation is looked up; one that is not
\* COMPLETED is to be cancelled. The response may carry no data, and the
\* request may throw.
ExpLookup ==
    /\ expPc = "lookup"
    /\ expCalls' = Append(expCalls, Call("currentBulkOperation", NoOp))
    /\ \E outcome \in {"data", "noData", "throw"} :
          LET currentOp == IF outcome = "data" THEN CurrentBulkOperation ELSE NoOp
          IN  IF outcome = "throw"
              THEN expPc' = "threw" /\ expCancelId' = NoOp
              ELSE IF currentOp # NoOp /\ jobs[currentOp].status # "COMPLETED"
                   THEN expPc' = "cancel" /\ expCancelId' = currentOp
                   ELSE expPc' = "run" /\ expCancelId' = NoOp
    /\ UNCHANGED << expCaller, expLocationId, expResult, jobs, exceptExport >>

AfterCancel_FirstAgain == "run"

\* The submission that follows a cancel: the first one, or the retry.
AfterCancel == IF expResult = NoResult THEN "run" ELSE "rerun"

ExpCancel_AbortsOnThrow ==
    /\ expPc = "cancel"
    /\ \E outcome \in {"sent", "throw"} :
          \/ /\ outcome = "sent"
             /\ jobs' = Cancelled(expCancelId)
             /\ expCalls' = Append(expCalls, Call("bulkOperationCancel", expCancelId))
             /\ expPc' = "settle"
          \/ /\ outcome = "throw"
             /\ expCalls' = Append(expCalls, Call("bulkOperationCancel", expCancelId))
             /\ expPc' = "threw"
             /\ UNCHANGED jobs
    /\ UNCHANGED << expCaller, expLocationId, expCancelId, expResult, exceptExport >>

\* Lines 217-233, cancelOperation: the cancel request, then the settle delay;
\* a request that throws is logged and skips the delay.
ExpCancel ==
    /\ expPc = "cancel"
    /\ \E outcome \in {"sent", "throw"} :
          \/ /\ outcome = "sent"
             /\ jobs' = Cancelled(expCancelId)
             /\ expCalls' = Append(expCalls, Call("bulkOperationCancel", expCancelId))
             /\ expPc' = "settle"
          \/ /\ outcome = "throw"
             /\ expCalls' = Append(expCalls, Call("bulkOperationCancel", expCancelId))
             /\ expPc' = AfterCancel
             /\ UNCHANGED jobs
    /\ UNCHANGED << expCaller, expLocationId, expCancelId, expResult, exceptExport >>

\* Line 229: the settle delay has elapsed.
ExpSettle ==
    /\ expPc = "settle"
    /\ expCalls' = Append(expCalls, Call("settle", expCancelId))
    /\ expPc' = AfterCancel
    /\ UNCHANGED << expCaller, expLocationId, expCancelId, expResult, jobs, exceptExport >>

InProgressError == "A bulk query operation for this app and shop is already in progress"

\* The operations this run of the action has sent a cancel request for.
CancelsSent ==
    {expCalls[k].id : k \in {h \in 1..Len(expCalls) : expCalls[h].op = "bulkOperationCancel"}}

\* Lines 252-311, runQuery: the remote system accepts the read job unless a
\* bulk query is still active, and may refuse it for another reason; the
\* request may throw.
RunQuery(next) ==
    /\ expCalls' = Append(expCalls, Call("bulkOperationRunQuery", NoOp))
    /\ \E outcome \in {"created", "inProgress", "otherError", "throw"} :
          \/ /\ outcome = "throw"
             /\ expPc' = "threw"
             /\ UNCHANGED << expResult, jobs >>
          \/ /\ outcome = "created"
             /\ ActiveJobs("READ") = {}
             /\ jobs' = Submitted("READ", CancelsSent)
             /\ expResult' = [userErrors |-> << >>, operationId |-> Len(jobs) + 1]
             /\ expPc' = next
          \/ /\ outcome = "inProgress"
             /\ ActiveJobs("READ") # {}
             /\ expResult' = [userErrors |-> <<InProgressError>>, operationId |-> NoOp]
             /\ expPc' = next
             /\ UNCHANGED jobs
          \/ /\ outcome = "otherError"
             /\ ActiveJobs("READ") = {}
             /\ expResult' = [userErrors |-> <<"Invalid bulk query">>, operationId |-> NoOp]
             /\ expPc' = next
             /\ UNCHANGED jobs
    /\ UNCHANGED << expCaller, expLocationId, expCancelId, exceptExport >>

\* Line 313: the first submission.
ExpRun == expPc = "run" /\ RunQuery("check")

\* e.message.includes("in progress")
MentionsInProgress(message) == message = InProgressError

\* Lines 316-321: on an "in progress" user error the current operation is
\* looked up again; the lookup may throw, or carry no id.
ExpRetryLookup ==
    /\ expPc = "check"
    /\ IF \E k \in 1..Len(expResult.userErrors) : MentionsInProgress(expResult.userErrors[k])
       THEN /\ expCalls' = Append(expCalls, Call("currentBulkOperation", NoOp))
            /\ \E outcome \in {"id", "noId", "throw"} :
                  \/ /\ outcome = "id"
                     /\ CurrentBulkOperation # NoOp
                     /\ expCancelId' = CurrentBulkOperation
                     /\ expPc' = "cancel"
                  \/ /\ outcome = "noId"
                     /\ expCancelId' = NoOp
                     /\ expPc' = "rerun"
                  \/ /\ outcome = "throw"
                     /\ expCancelId' = NoOp
                     /\ expPc' = "threw"
       ELSE /\ expPc' = "respond"
            /\ UNCHANGED << expCalls, expCancelId >>
    /\ UNCHANGED << expCaller, expLocationId, expResult, jobs, exceptExport >>

\* Line 323: the one retry.
ExpRerun == expPc = "rerun" /\ RunQuery("respond")

ExportResponse_AlwaysCreated ==
    [ success |-> TRUE, status |-> "CREATED", error |-> "none",
      locationId |-> expLocationId, operationId |-> expResult.operationId ]

\* Lines 326-330: what the action returns.
ExportResponse ==
    IF Len(expResult.userErrors) > 0
    THEN [ success |-> FALSE, status |-> "none", error |-> expResult.userErrors[1],
           locationId |-> "none", operationId |-> NoOp ]
    ELSE [ success |-> TRUE, status |-> "CREATED", error |-> "none",
           locationId |-> expLocationId, operationId |-> expResult.operationId ]

\* An export requested from another session of the shop: its response goes
\* to that session.
ExpBeginElsewhere ==
    /\ ExpBegin("other", "ALL_LOCATIONS")
    /\ UNCHANGED << jobs, exceptExport >>

\* The action has returned: its locals are gone.
ExportIdleNext ==
    /\ expPc' = "idle"
    /\ expCaller' = "none"
    /\ expLocationId' = "none"
    /\ expCancelId' = NoOp
    /\ expResult' = NoResult
    /\ expCalls' = << >>

ExpReturnElsewhere ==
    /\ expPc \in {"respond", "threw"}
    /\ expCaller = "other"
    /\ ExportIdleNext
    /\ UNCHANGED << jobs, exceptExport >>

ExportActionNext ==
    \/ ExpLookup
    \/ ExpCancel
    \/ ExpSettle
    \/ ExpRun
    \/ ExpRetryLookup
    \/ ExpRerun

\* ------------------------------------------------------------ export page
\* ------------------------------------------------- export tree builder
\* No id (undefined).
NoId == [type |-> "none", n |-> 0]

RecordId(type, n) == [type |-> type, n |-> n]

\* id.includes(word) for the ids of the artifact's records.
IdIncludes(id, word) ==
    \/ id.type = word
    \/ id.type = "ProductVariant" /\ word = "Product"

NoLocation == [id |-> "none", name |-> ""]

\* One parsed line of a read job's artifact; json is FALSE for a line that
\* does not parse. Absent fields are NoId, NoLocation or empty.
ArtifactRecord(id, title, sku, parentId, item, options, location, quantities) ==
    [ json |-> TRUE, id |-> id, title |-> title, sku |-> sku, parentId |-> parentId,
      inventoryItem |-> item, selectedOptions |-> options, location |-> location,
      quantities |-> quantities ]

MalformedLine ==
    [ArtifactRecord(NoId, "", "", NoId, NoId, << >>, NoLocation, << >>) EXCEPT !.json = FALSE]

ProductRecord(n, title) ==
    ArtifactRecord(RecordId("Product", n), title, "", NoId, NoId, << >>, NoLocation, << >>)

VariantRecord(n, sku, product, item, options) ==
    ArtifactRecord(RecordId("ProductVariant", n), "", sku, RecordId("Product", product),
                   RecordId("InventoryItem", item), options, NoLocation, << >>)

LevelRecord(n, parentId, location, quantities) ==
    ArtifactRecord(RecordId("InventoryLevel", n), "", "", parentId, NoId, << >>,
                   location, quantities)

\* The records the store's catalogue yields: a product, its two variants, the
\* levels of the first variant (one listed under the variant, one under its
\* inventory item), a level whose parent is not part of the export, and a
\* line that is not JSON.
Product1 == ProductRecord(1, "T1")

Variant1 == VariantRecord(1, "s1", 1, 1, <<"red">>)

Variant2 == VariantRecord(2, "s2", 1, 2, << >>)

Level1 ==
    LevelRecord(1, RecordId("ProductVariant", 1), [id |-> "L1", name |-> "Main"], <<3>>)

Level2 ==
    LevelRecord(2, RecordId("InventoryItem", 1), [id |-> "L2", name |-> ""], << >>)

LevelElsewhere ==
    LevelRecord(3, RecordId("ProductVariant", 9), [id |-> "L1", name |-> "Main"], <<4>>)

ArtifactPool ==
    {Product1, Variant1, Variant2, Level1, Level2, LevelElsewhere, MalformedLine}

\* An artifact in hierarchy order.
ArtifactInOrder == <<Product1, Variant1, Level1>>

\* The artifacts of at most MaxLines lines, each record at most once.
Artifacts ==
    { lines \in SeqsUpTo(ArtifactPool, MaxLines) :
        \A i, j \in 1..Len(lines) : lines[i] = lines[j] => i = j }

\* Lines 54-58: the empty maps and the empty product list.
EmptyTree ==
    [ products |-> << >>, variants |-> EmptyMap, variantsMap |-> EmptyMap,
      inventoryItemsMap |-> EmptyMap, inventoryLevels |-> EmptyMap, consoleErrors |-> 0 ]

\* Lines 64-67: a record with a Product id and no sku starts a product.
AddProduct(t, obj) ==
    [t EXCEPT !.products = Append(@, obj),
              !.variants = (obj.id :> << >>) @@ @]

\* Lines 68-81: a variant is registered, pushed to its product if that one is
\* already registered, and its inventory item is registered with no levels.
AddVariant(t, obj) ==
    LET registered == [t EXCEPT !.variantsMap = (obj.id :> obj) @@ @]
        pushed == IF obj.parentId # NoId /\ obj.parentId \in DOMAIN t.variants
                  THEN [registered EXCEPT !.variants[obj.parentId] = Append(@, obj)]
                  ELSE registered
    IN  IF obj.inventoryItem # NoId
        THEN [pushed EXCEPT !.inventoryLevels = (obj.id :> << >>) @@ @,
                            !.inventoryItemsMap = (obj.inventoryItem :> obj.id) @@ @]
        ELSE pushed

AddLevel_ItemOnly(t, obj) ==
    IF obj.parentId # NoId /\ obj.parentId \in DOMAIN t.inventoryItemsMap
    THEN [t EXCEPT !.inventoryLevels[t.inventoryItemsMap[obj.parentId]] = Append(@, obj)]
    ELSE t

\* Lines 82-99: a level is pushed to the inventory item it names, else to the
\* inventory item of the variant it names, else it goes nowhere.
AddLevel(t, obj) ==
    IF obj.parentId # NoId /\ obj.parentId \in DOMAIN t.inventoryItemsMap
    THEN [t EXCEPT !.inventoryLevels[t.inventoryItemsMap[obj.parentId]] = Append(@, obj)]
    ELSE IF obj.parentId # NoId /\ obj.parentId \in DOMAIN t.variantsMap
    THEN IF t.variantsMap[obj.parentId].inventoryItem # NoId
         THEN [t EXCEPT !.inventoryLevels[obj.parentId] =
                            IF obj.parentId \in DOMAIN t.inventoryLevels
                            THEN Append(t.inventoryLevels[obj.parentId], obj)
                            ELSE <<obj>>]
         ELSE t
    ELSE t

\* Lines 61-103: one line of the artifact.
AddLine(t, obj) ==
    IF ~obj.json THEN [t EXCEPT !.consoleErrors = @ + 1]
    ELSE IF obj.id # NoId /\ IdIncludes(obj.id, "Product") /\ obj.sku = ""
    THEN AddProduct(t, obj)
    ELSE IF obj.id # NoId /\ IdIncludes(obj.id, "ProductVariant")
    THEN AddVariant(t, obj)
    ELSE IF \/ obj.id # NoId /\ IdIncludes(obj.id, "InventoryLevel")
            \/ obj.location # NoLocation /\ obj.quantities # << >>
    THEN AddLevel(t, obj)
    ELSE t

RECURSIVE BuildTree(_, _)
\* Lines 60-104: the lines are handled one after the other.
BuildTree(lines, t) ==
    IF lines = << >> THEN t ELSE BuildTree(Tail(lines), AddLine(t, Head(lines)))

\* Lines 129 and 134: a location filter is active.
FilterActive(loc) == loc # "" /\ loc # "ALL_LOCATIONS"

\* Lines 113-124: the first three option values, blank where there is none.
OptionValues(variant) ==
    [k \in 1..3 |-> IF k <= Len(variant.selectedOptions)
                    THEN variant.selectedOptions[k] ELSE ""]

ExportRow(title, sku, options, location, quantity) ==
    [ title |-> title, sku |-> sku, options |-> options, location |-> location,
      quantity |-> quantity ]

\* Lines 147-155: the row of one level.
LevelRow(product, variant, level) ==
    ExportRow(product.title, variant.sku, OptionValues(variant),
              IF level.location.name # "" THEN level.location.name ELSE "Unknown",
              IF level.quantities # << >> THEN Num(level.quantities[1]) ELSE Num(0))

\* Lines 135-143: the row of a variant without levels.
PlaceholderRow(product, variant) ==
    ExportRow(product.title, variant.sku, OptionValues(variant), "N/A", Num(0))

VariantRows_PlaceholderAlways(t, product, variant, loc) ==
    <<PlaceholderRow(product, variant)>>

\* Lines 126-157: the rows of one variant.
VariantRows(t, product, variant, loc) ==
    LET inventoryLevels == IF variant.inventoryItem # NoId /\ variant.id \in DOMAIN t.inventoryLevels
                           THEN t.inventoryLevels[variant.id] ELSE << >>
        filteredInventory == IF FilterActive(loc)
                             THEN SelectSeq(inventoryLevels, LAMBDA level : level.location.id = loc)
                             ELSE inventoryLevels
    IN  IF filteredInventory = << >>
        THEN IF ~FilterActive(loc) THEN <<PlaceholderRow(product, variant)>> ELSE << >>
        ELSE [k \in 1..Len(filteredInventory) |-> LevelRow(product, variant, filteredInventory[k])]

RECURSIVE ProductRows(_, _, _, _)
\* Lines 112-158: the rows of a product's variants, in order.
ProductRows(t, product, variants, loc) ==
    IF variants = << >> THEN << >>
    ELSE VariantRows(t, product, Head(variants), loc)
             \o ProductRows(t, product, Tail(variants), loc)

RECURSIVE TreeRows(_, _, _)
\* Lines 107-159: the rows of the products, in order.
TreeRows(t, products, loc) ==
    IF products = << >> THEN << >>
    ELSE ProductRows(t, Head(products), t.variants[Head(products).id], loc)
             \o TreeRows(t, Tail(products), loc)

\* Lines 161-171.
NoDataFoundRow == ExportRow("No data found", "", <<"", "", "">>, "", Str(<< >>))

ExportRows_Unpadded(lines, loc) ==
    LET t == BuildTree(lines, EmptyTree)
    IN  TreeRows(t, t.products, loc)

\* Lines 52-173: the rows a status check answers for an artifact.
ExportRows(lines, loc) ==
    LET t == BuildTree(lines, EmptyTree)
        found == TreeRows(t, t.products, loc)
    IN  IF found = << >> THEN <<NoDataFoundRow>> ELSE found

NoData == [status |-> "none", error |-> "none", rows |-> << >>, operationId |-> NoOp]

NoExport == [operationId |-> NoOp, locationId |-> "none"]

NoResponse ==
    [ success |-> FALSE, status |-> "none", error |-> "none", locationId |-> "none",
      operationId |-> NoOp ]

ExportPageIdle ==
    /\ exportFetcher = [state |-> "idle", data |-> NoResponse]
    /\ currentExport = NoExport
    /\ exportProgressVisible = FALSE
    /\ exportPollFetcher = [request |-> NoOp, locationId |-> "none", data |-> NoData]
    /\ exportPollTimer = FALSE
    /\ exportHideTimer = FALSE
    /\ exportToast = "none"
    /\ pollLog = << >>
    /\ artifactReads = 0
    /\ downloads = 0

\* Line 346.
ExportIsLoading ==
    exportFetcher.state \in {"submitting", "loading"} \/ currentExport # NoExport

\* Lines 446-452, handleExport: the button is pressed with a location chosen;
\* the request reaches the export action.
HandleExport ==
    /\ ~ExportIsLoading
    /\ exportFetcher.state = "idle"
    /\ \E selectedLocation \in LocationChoices : ExpBegin("client", selectedLocation)
    /\ exportProgressVisible' = TRUE
    /\ exportFetcher' = [exportFetcher EXCEPT !.state = "submitting"]
    /\ pollLog' = << >>
    /\ artifactReads' = 0
    /\ downloads' = 0
    /\ UNCHANGED << currentExport, exportPollFetcher, exportPollTimer, exportHideTimer,
                    exportToast >>
    /\ UNCHANGED << sheetVars, impLocals, importPage, jobs >>

\* Lines 326-330 and 354-372: the action's response arrives; a started export
\* becomes the active one and is polled at once, an error hides the progress.
ExpReturnToPage ==
    /\ expPc = "respond"
    /\ expCaller = "client"
    /\ ExportIdleNext
    /\ exportFetcher' = [state |-> "idle", data |-> ExportResponse]
    /\ IF ExportResponse.success /\ ExportResponse.status = "CREATED"
       THEN /\ currentExport' = [ operationId |-> ExportResponse.operationId,
                                  locationId |-> ExportResponse.locationId ]
            /\ exportProgressVisible' = TRUE
            /\ exportToast' = "Export started..."
            /\ exportPollFetcher' =
                  [ exportPollFetcher EXCEPT !.request = ExportResponse.operationId,
                                             !.locationId = ExportResponse.locationId ]
       ELSE /\ exportToast' = ExportResponse.error
            /\ exportProgressVisible' = FALSE
            /\ UNCHANGED << currentExport, exportPollFetcher >>
    /\ UNCHANGED << exportPollTimer, exportHideTimer, pollLog, artifactReads, downloads >>
    /\ UNCHANGED << sheetVars, impLocals, importPage, jobs >>

\* A request of the action threw: the page's fetcher ends in error.
ExpThrowToPage ==
    /\ expPc = "threw"
    /\ expCaller = "client"
    /\ ExportIdleNext
    /\ exportFetcher' = [exportFetcher EXCEPT !.state = "error"]
    /\ UNCHANGED << currentExport, exportProgressVisible, exportPollFetcher,
                    exportPollTimer, exportHideTimer, exportToast, pollLog,
                    artifactReads, downloads >>
    /\ UNCHANGED << sheetVars, impLocals, importPage, jobs >>

ExportLoader_CompletedEmpty(op, loc, hasNode, hasUrl, readOk) ==
    IF ~hasNode
    THEN [status |-> "NONE", error |-> "none", rows |-> << >>, operationId |-> op]
    ELSE IF jobs[op].status = "COMPLETED"
    THEN [ status |-> "COMPLETED", error |-> "none",
           rows |-> IF hasUrl /\ readOk THEN ExportRows(exportArtifact, loc) ELSE << >>,
           operationId |-> op ]
    ELSE IF jobs[op].status \in {"RUNNING", "CREATED"}
    THEN [status |-> "RUNNING", error |-> "none", rows |-> << >>, operationId |-> op]
    ELSE [status |-> jobs[op].status, error |-> "none", rows |-> << >>, operationId |-> op]

ExportLoader_Running(op, loc, hasNode, hasUrl, readOk) ==
    [status |-> "RUNNING", error |-> "none", rows |-> << >>, operationId |-> op]

\* Lines 16-43 and 179-183 of the loader, with lines 45-52 and 173-178: what a
\* status check of operation op answers. The node may be missing; a COMPLETED
\* operation may carry no url; reading the artifact may throw.
ExportLoader(op, loc, hasNode, hasUrl, readOk) ==
    IF ~hasNode
    THEN [status |-> "NONE", error |-> "none", rows |-> << >>, operationId |-> op]
    ELSE IF jobs[op].status = "COMPLETED"
    THEN IF ~hasUrl
         THEN [ status |-> "FAILED", error |-> "No URL in completed bulk operation",
                rows |-> << >>, operationId |-> op ]
         ELSE IF ~readOk
         THEN [ status |-> "FAILED", error |-> "Failed to parse bulk data",
                rows |-> << >>, operationId |-> op ]
         ELSE [ status |-> "COMPLETED", error |-> "none",
                rows |-> ExportRows(exportArtifact, loc), operationId |-> op ]
    ELSE IF jobs[op].status \in {"RUNNING", "CREATED"}
    THEN [status |-> "RUNNING", error |-> "none", rows |-> << >>, operationId |-> op]
    ELSE [status |-> jobs[op].status, error |-> "none", rows |-> << >>, operationId |-> op]

ReadsArtifact_EveryPoll(op, hasNode, hasUrl) == hasNode

\* Line 50: the loader fetches the result artifact.
ReadsArtifact(op, hasNode, hasUrl) == hasNode /\ jobs[op].status = "COMPLETED" /\ hasUrl

\* The remote status a status check saw.
SeenStatus(op, hasNode) == IF hasNode THEN jobs[op].status ELSE "NONE"

ForCurrentExport_AnyOperation(data) == currentExport # NoExport

\* Line 380: the response is for the active export.
ForCurrentExport(data) ==
    currentExport # NoExport /\ data.operationId = currentExport.operationId

\* A status check is answered (loader, lines 9-184) and the page's polling
\* effect handles the answer (lines 375-429).
ExportPoll ==
    /\ exportPollFetcher.request # NoOp
    /\ Len(pollLog) < MaxPolls
    /\ \E hasNode \in BOOLEAN, hasUrl \in BOOLEAN, readOk \in BOOLEAN, generated \in BOOLEAN :
          LET op == exportPollFetcher.request
              data == ExportLoader(op, exportPollFetcher.locationId, hasNode, hasUrl, readOk)
          IN  /\ exportPollFetcher' = [exportPollFetcher EXCEPT !.request = NoOp, !.data = data]
              /\ artifactReads' = artifactReads + IF ReadsArtifact(op, hasNode, hasUrl)
                                                  THEN 1 ELSE 0
              /\ pollLog' = Append(pollLog, SeenStatus(op, hasNode))
              /\ IF ~ForCurrentExport(data)
                 \* the effect runs again and only its cleanup clears the timer
                 THEN /\ exportPollTimer' = FALSE
                      /\ UNCHANGED << currentExport, exportProgressVisible, exportHideTimer,
                                      exportToast, downloads >>
                 ELSE IF data.status = "RUNNING"
                 THEN /\ exportPollTimer' = TRUE
                      /\ UNCHANGED << currentExport, exportProgressVisible, exportHideTimer,
                                      exportToast, downloads >>
                 ELSE IF data.status = "COMPLETED"
                 THEN /\ currentExport' = NoExport
                      /\ exportPollTimer' = FALSE
                      /\ IF generated
                         THEN /\ downloads' = downloads + 1
                              /\ exportToast' = "Export complete"
                              /\ exportHideTimer' = TRUE
                              /\ UNCHANGED exportProgressVisible
                         ELSE /\ exportToast' = "Export failed generation"
                              /\ exportProgressVisible' = FALSE
                              /\ UNCHANGED << downloads, exportHideTimer >>
                 ELSE IF data.status \in {"FAILED", "NONE"}
                 THEN /\ currentExport' = NoExport
                      /\ exportPollTimer' = FALSE
                      /\ exportProgressVisible' = FALSE
                      /\ exportToast' = "Export failed"
                      /\ UNCHANGED << downloads, exportHideTimer >>
                 ELSE /\ exportPollTimer' = FALSE
                      /\ UNCHANGED << currentExport, exportProgressVisible, exportHideTimer,
                                      exportToast, downloads >>
    /\ UNCHANGED exportFetcher
    /\ UNCHANGED << sheetVars, impLocals, importPage, jobs, expLocals >>

\* Lines 383-385: the poll timer fires and the next status check is sent.
ExportPollTimerFires ==
    /\ exportPollTimer
    /\ exportPollTimer' = FALSE
    /\ exportPollFetcher' = [ exportPollFetcher EXCEPT !.request = currentExport.operationId,
                                                        !.locationId = currentExport.locationId ]
    /\ UNCHANGED << exportFetcher, currentExport, exportProgressVisible, exportHideTimer,
                    exportToast, pollLog, artifactReads, downloads >>
    /\ UNCHANGED << sheetVars, impLocals, importPage, jobs, expLocals >>

\* Lines 411-413: the progress is hidden shortly after the download.
ExportHideTimerFires ==
    /\ exportHideTimer
    /\ exportHideTimer' = FALSE
    /\ exportProgressVisible' = FALSE
    /\ UNCHANGED << exportFetcher, currentExport, exportPollFetcher, exportPollTimer,
                    exportToast, pollLog, artifactReads, downloads >>
    /\ UNCHANGED << sheetVars, impLocals, importPage, jobs, expLocals >>

\* ------------------------------------------------------------ import page
NoBulkData ==
    [status |-> "none", operationId |-> NoOp, bulkResults |-> [updated |-> 0, errors |-> << >>]]

NoArtifact == [hasUrl |-> FALSE, readOk |-> FALSE, lines |-> << >>, objectCount |-> 0]

ImportPageIdle ==
    /\ importFetcher = [state |-> "idle", data |-> << >>]
    /\ validatedResults = << >>
    /\ finalResults = << >>
    /\ importProgressVisible = FALSE
    /\ importPollFetcher = [request |-> NoOp, data |-> NoBulkData]
    /\ importPollTimer = FALSE
    /\ importHideTimer = FALSE
    /\ importArtifact = NoArtifact

\* Line 434.
ImportIsLoading == importFetcher.state \in {"submitting", "loading"}

\* validatedResults?.bulkOperationId
PolledOperation == IF validatedResults = << >> THEN NoOp ELSE validatedResults[1].bulkOperationId

\* Line 601: the import button shows as loading.
ImportButtonLoading == ImportIsLoading \/ (PolledOperation # NoOp /\ finalResults = << >>)

\* Lines 441-489, handleFileChange: a sheet is chosen, the earlier results are
\* dropped and the rows are posted to the import action.
HandleFileChange ==
    /\ ~ImportButtonLoading
    /\ importFetcher.state = "idle"
    /\ impPc = "idle"
    /\ validatedResults' = << >>
    /\ finalResults' = << >>
    /\ importProgressVisible' = TRUE
    /\ importFetcher' = [importFetcher EXCEPT !.state = "submitting"]
    /\ UNCHANGED << importPollFetcher, importPollTimer, importHideTimer >>
    /\ UNCHANGED importArtifact
    /\ UNCHANGED << sheetVars, impLocals, jobs, expLocals, exportPage >>

\* The import action, run for the page's request.
ImportForPage ==
    /\ importFetcher.state = "submitting"
    /\ ImportNext

\* Lines 370, 408 and 500-516: the action's response arrives; a started write
\* job is polled at once, otherwise the results are final.
ImpReturnToPage ==
    /\ impPc = "returned"
    /\ importFetcher.state = "submitting"
    /\ importFetcher' = [state |-> "idle", data |-> <<results>>]
    /\ validatedResults' = <<results>>
    /\ IF results.bulkOperationId # NoOp
       THEN /\ importPollFetcher' =
                  [importPollFetcher EXCEPT !.request = results.bulkOperationId]
            /\ UNCHANGED << finalResults, importHideTimer >>
       ELSE /\ finalResults' = <<results>>
            /\ importHideTimer' = TRUE
            /\ UNCHANGED importPollFetcher
    /\ UNCHANGED << importProgressVisible, importPollTimer >>
    /\ UNCHANGED importArtifact
    /\ UNCHANGED << sheetVars, impLocals, jobs, expLocals, exportPage >>

\* A request of the action threw: the page's fetcher ends in error.
ImpThrowToPage ==
    /\ impPc = "threw"
    /\ importFetcher.state = "submitting"
    /\ importFetcher' = [importFetcher EXCEPT !.state = "error"]
    /\ UNCHANGED << validatedResults, finalResults, importProgressVisible,
                    importPollFetcher, importPollTimer, importHideTimer >>
    /\ UNCHANGED importArtifact
    /\ UNCHANGED << sheetVars, impLocals, jobs, expLocals, exportPage >>

\* The lines a result artifact is made of: the result of one payload line
\* without user errors, one with user errors (the first message is kept), or
\* a line that is not JSON.
ArtifactLines ==
    { [kind |-> "ok", message |-> "none"],
      [kind |-> "userErrors", message |-> "e1"],
      [kind |-> "userErrors", message |-> "e2"],
      [kind |-> "malformed", message |-> "none"] }

\* The result artifacts of a write job of n payload lines.
WriteArtifacts(n) == [1..n -> ArtifactLines]

ParseResults_SkipMalformed(lines, acc) ==
    LET wellFormed == SelectSeq(lines, LAMBDA l : l.kind # "malformed")
        failed == SelectSeq(lines, LAMBDA l : l.kind = "userErrors")
    IN  [ updated |-> Len(wellFormed) - Len(failed),
          errors |-> [k \in 1..Len(failed) |-> failed[k].message] ]

RECURSIVE ParseResults(_, _)
\* Lines 48-59 of the loader: the lines are parsed in order inside one try;
\* the first line that does not parse ends the loop, and what was counted so
\* far is kept.
ParseResults(lines, acc) ==
    IF lines = << >> THEN acc
    ELSE LET result == Head(lines)
         IN  IF result.kind = "malformed" THEN acc
             ELSE IF result.kind = "userErrors"
             THEN ParseResults(Tail(lines), [acc EXCEPT !.errors = Append(@, result.message)])
             ELSE ParseResults(Tail(lines), [acc EXCEPT !.updated = @ + 1])

\* Lines 38-64 of the loader: the counts of a completed write job, read from
\* its result artifact (the read may throw) or, without url, from its
\* objectCount.
BulkResults(artifact) ==
    IF artifact.hasUrl
    THEN IF artifact.readOk
         THEN ParseResults(artifact.lines, [updated |-> 0, errors |-> << >>])
         ELSE [updated |-> 0, errors |-> << >>]
    ELSE [updated |-> artifact.objectCount, errors |-> << >>]

\* Lines 15-71 of the loader: what a status check of operation op answers.
ImportLoader(op, hasNode, artifact) ==
    IF ~hasNode
    THEN [status |-> "NONE", operationId |-> op, bulkResults |-> NoBulkData.bulkResults]
    ELSE IF jobs[op].status = "COMPLETED"
    THEN [status |-> "COMPLETED", operationId |-> op, bulkResults |-> BulkResults(artifact)]
    ELSE IF jobs[op].status \in {"RUNNING", "CREATED"}
    THEN [status |-> "RUNNING", operationId |-> op, bulkResults |-> NoBulkData.bulkResults]
    ELSE [status |-> jobs[op].status, operationId |-> op,
          bulkResults |-> NoBulkData.bulkResults]

Merged_DropRows(validated, bulkRes) ==
    [validated EXCEPT !.updated = @ + bulkRes.updated, !.errors = @ \o bulkRes.errors,
                      !.failedRows = << >>]

\* Lines 536-540.
Merged(validated, bulkRes) ==
    [validated EXCEPT !.updated = @ + bulkRes.updated, !.errors = @ \o bulkRes.errors]

\* The remote system's side of a status check: whether the node is there,
\* and for a completed job its objectCount and, when it has a url, the result
\* lines behind it (one per payload line).
StatusChecks(op) ==
    { [hasNode |-> n, artifact |-> a] :
        n \in BOOLEAN,
        a \in IF op \in JobIds /\ jobs[op].status = "COMPLETED"
              THEN { r \in [ hasUrl : BOOLEAN, readOk : BOOLEAN,
                             lines : WriteArtifacts(Len(jsonlLines)) \cup {<< >>},
                             objectCount : 0..Len(jsonlLines) ] :
                         (r.lines = << >>) = ~r.hasUrl }
              ELSE {NoArtifact} }

\* A status check is answered (loader, lines 8-71) and the page's polling
\* effect handles the answer (lines 519-551).
ImportPoll ==
    /\ importPollFetcher.request # NoOp
    /\ \E check \in StatusChecks(importPollFetcher.request) :
          LET data == ImportLoader(importPollFetcher.request, check.hasNode, check.artifact)
          IN  /\ importPollFetcher' = [request |-> NoOp, data |-> data]
              /\ importArtifact' = IF data.status = "COMPLETED" THEN check.artifact
                                   ELSE importArtifact
              /\ IF PolledOperation = NoOp \/ data.operationId # PolledOperation
                 \* the effect runs again and only its cleanup clears the timer
                 THEN /\ importPollTimer' = FALSE
                      /\ UNCHANGED << finalResults, importProgressVisible, importHideTimer >>
                 ELSE IF data.status \in {"RUNNING", "CREATED"}
                 THEN /\ importPollTimer' = TRUE
                      /\ UNCHANGED << finalResults, importProgressVisible, importHideTimer >>
                 ELSE IF data.status = "COMPLETED"
                 THEN /\ finalResults' = <<Merged(validatedResults[1], data.bulkResults)>>
                      /\ importHideTimer' = TRUE
                      /\ importPollTimer' = FALSE
                      /\ UNCHANGED importProgressVisible
                 ELSE IF data.status = "FAILED"
                 THEN /\ importProgressVisible' = FALSE
                      /\ importPollTimer' = FALSE
                      /\ UNCHANGED << finalResults, importHideTimer >>
                 ELSE /\ importPollTimer' = FALSE
                      /\ UNCHANGED << finalResults, importProgressVisible, importHideTimer >>
    /\ UNCHANGED << importFetcher, validatedResults >>
    /\ UNCHANGED << sheetVars, impLocals, jobs, expLocals, exportPage >>

\* Lines 528-530: the poll timer fires and the next status check is sent.
ImportPollTimerFires ==
    /\ importPollTimer
    /\ importPollTimer' = FALSE
    /\ importPollFetcher' = [importPollFetcher EXCEPT !.request = PolledOperation]
    /\ UNCHANGED << importFetcher, validatedResults, finalResults, importProgressVisible,
                    importHideTimer >>
    /\ UNCHANGED importArtifact
    /\ UNCHANGED << sheetVars, impLocals, jobs, expLocals, exportPage >>

ImportHideTimerFires_ClearsReport ==
    /\ importHideTimer
    /\ importHideTimer' = FALSE
    /\ importProgressVisible' = FALSE
    /\ finalResults' = << >>
    /\ UNCHANGED << importFetcher, validatedResults, importPollFetcher, importPollTimer >>
    /\ UNCHANGED importArtifact
    /\ UNCHANGED << sheetVars, impLocals, jobs, expLocals, exportPage >>

\* Lines 512 and 544: the progress is hidden two seconds after the end.
ImportHideTimerFires ==
    /\ importHideTimer
    /\ importHideTimer' = FALSE
    /\ importProgressVisible' = FALSE
    /\ UNCHANGED << importFetcher, validatedResults, finalResults, importPollFetcher,
                    importPollTimer >>
    /\ UNCHANGED importArtifact
    /\ UNCHANGED << sheetVars, impLocals, jobs, expLocals, exportPage >>

\* ---------------------------------------------------------- webhook route
\* The methods a route's action is called for, the topics a webhook can name
\* and the ones the action handles (lines 34-47).
ActionMethods == {"POST", "PUT", "DELETE"}

HandledTopics == {"CUSTOMERS_DATA_REQUEST", "CUSTOMERS_REDACT", "SHOP_REDACT"}

Topics == HandledTopics \cup {"APP_UNINSTALLED"}

\* createHmac("sha256", secret).update(body).digest("base64"), on one-character
\* secrets and bodies: a text of fixed length that differs whenever the secret
\* or the body differs.
Hmac(secret, body) == << secret[1], body[1] >>

\* The secrets the environment can hold (unset, empty, set), the bodies a
\* request can carry, and the values of its X-Shopify-Hmac-Sha256 header: none,
\* empty, the signature of either body under the app's secret, a signature made
\* with another secret, a text of another length.
Secrets == {Undef, Str(<< >>), Str(<<"k">>)}

Bodies == {<<"x">>, <<"y">>}

HmacHeaders ==
    {Undef, Str(<< >>), Str(<<"k">>), Str(Hmac(<<"z">>, <<"x">>))}
    \cup {Str(Hmac(<<"k">>, body)) : body \in Bodies}

\* verifyWebhook(request): readable = requestClone.text() does not throw.
verifyWebhook_LengthOnly(hmacHeader, secret, body, readable) ==
    IF ~Truthy(hmacHeader) THEN FALSE
    ELSE IF ~Truthy(secret) THEN FALSE
    ELSE IF ~readable THEN FALSE
    ELSE Len(hmacHeader.s) = Len(Hmac(secret.s, body))

verifyWebhook(hmacHeader, secret, body, readable) ==
    IF ~Truthy(hmacHeader) THEN FALSE
    ELSE IF ~Truthy(secret) THEN FALSE
    ELSE IF ~readable THEN FALSE
    ELSE IF Len(hmacHeader.s) # Len(Hmac(secret.s, body)) THEN FALSE
    ELSE hmacHeader.s = Hmac(secret.s, body)

\* No webhook request is being answered.
NoWebhook ==
    [ pc |-> "none", method |-> "POST", hmacHeader |-> Undef, secret |-> Undef,
      body |-> <<"x">>, readable |-> TRUE, topic |-> "SHOP_REDACT",
      trustworthy |-> FALSE, authenticated |-> "no", status |-> 0 ]

\* The requests the action can be called with.
WebhookRequests ==
    { [ pc |-> "received", method |-> m, hmacHeader |-> h, secret |-> k,
        body |-> b, readable |-> r, topic |-> t,
        trustworthy |-> FALSE, authenticated |-> "no", status |-> 0 ] :
      m \in ActionMethods, h \in HmacHeaders, k \in Secrets, b \in Bodies,
      r \in BOOLEAN, t \in Topics }

WebhookAnswer(code) == [webhook EXCEPT !.pc = "answered", !.status = code]

\* Lines 11-13: any method but POST is refused.
WebhookMethod ==
    /\ webhook.pc = "received"
    /\ webhook' = IF webhook.method # "POST" THEN WebhookAnswer(405)
                  ELSE [webhook EXCEPT !.pc = "verify"]
    /\ UNCHANGED << rows, locationId, listing, exportArtifact, importRun >>
    /\ UNCHANGED << impLocals, jobs, expLocals, exportPage, importPage >>

\* Lines 18-24: the action's own verification of the signature.
WebhookVerify ==
    /\ webhook.pc = "verify"
    /\ LET trustworthy == verifyWebhook(webhook.hmacHeader, webhook.secret,
                                        webhook.body, webhook.readable)
       IN webhook' = IF ~trustworthy THEN WebhookAnswer(401)
                     ELSE [webhook EXCEPT !.pc = "authenticate", !.trustworthy = TRUE]
    /\ UNCHANGED << rows, locationId, listing, exportArtifact, importRun >>
    /\ UNCHANGED << impLocals, jobs, expLocals, exportPage, importPage >>

\* Line 27: authenticate.webhook returns the request's topic, or throws and
\* the catch of lines 57-61 answers.
WebhookAuthenticate ==
    /\ webhook.pc = "authenticate"
    /\ \E ok \in BOOLEAN :
         webhook' = IF ok
                    THEN [webhook EXCEPT !.pc = "dispatch", !.authenticated = "yes"]
                    ELSE [WebhookAnswer(401) EXCEPT !.authenticated = "threw"]
    /\ UNCHANGED << rows, locationId, listing, exportArtifact, importRun >>
    /\ UNCHANGED << impLocals, jobs, expLocals, exportPage, importPage >>

\* Lines 32-55: the switch on the topic, and the answer.
WebhookDispatch ==
    /\ webhook.pc = "dispatch"
    /\ webhook' = IF webhook.topic \in HandledTopics THEN WebhookAnswer(200)
                  ELSE WebhookAnswer(400)
    /\ UNCHANGED << rows, locationId, listing, exportArtifact, importRun >>
    /\ UNCHANGED << impLocals, jobs, expLocals, exportPage, importPage >>

\* ------------------------------------------------------- specifications
InitImport ==
    /\ rows \in SeqsUpTo(RowSet, MaxRows)
    /\ locationId \in LocationChoices
    /\ listing \in ListingSet
    /\ exportArtifact = ArtifactInOrder
    /\ importRun = 1
    /\ webhook = NoWebhook
    /\ ImportIdle
    /\ ExportIdle
    /\ ExportPageIdle
    /\ ImportPageIdle
    /\ jobs = << >>

\* The import action on its own, for every sheet.
SpecImport == InitImport /\ [][ImportNext]_vars

\* The sheets imported while jobs run: one row that is queued, or one that
\* already matches.
EngineSheets ==
    { <<Row(Str(<<"a">>), Num(9), Undef)>>, <<Row(Str(<<"a">>), Num(5), Undef)>> }

InitEngine ==
    /\ rows \in EngineSheets
    /\ locationId = "L1"
    /\ listing = ListingPaged
    /\ exportArtifact = ArtifactInOrder
    /\ importRun = 1
    /\ webhook = NoWebhook
    /\ ImportIdle
    /\ ExportIdle
    /\ ExportPageIdle
    /\ ImportPageIdle
    /\ jobs = << >>

EngineNext ==
    \/ ImportNext
    \/ ExpBeginElsewhere
    \/ ExportActionNext
    \/ ExpReturnElsewhere
    \/ RemoteAdvance

\* The import action, the export action and the remote system side by side.
SpecEngine == InitEngine /\ [][EngineNext]_vars

\* The export specifications start with nothing imported.
InitExport ==
    /\ rows = << >>
    /\ locationId = "ALL_LOCATIONS"
    /\ listing = ListingPaged
    /\ exportArtifact = ArtifactInOrder
    /\ importRun = 1
    /\ webhook = NoWebhook
    /\ ImportIdle
    /\ ExportIdle
    /\ ExportPageIdle
    /\ ImportPageIdle
    /\ jobs = << >>

ExportActionOnlyNext ==
    \/ ExpBeginElsewhere
    \/ ExportActionNext
    \/ ExpReturnElsewhere
    \/ RemoteAdvance

\* The export action, called again and again, and the remote system.
SpecExportAction == InitExport /\ [][ExportActionOnlyNext]_vars

ExportPageNext ==
    \/ HandleExport
    \/ ExportActionNext
    \/ ExpReturnToPage
    \/ ExpThrowToPage
    \/ ExportPoll
    \/ ExportPollTimerFires
    \/ ExportHideTimerFires
    \/ RemoteAdvance

\* The export page, the export action it calls and the remote system.
SpecExportPage == InitExport /\ [][ExportPageNext]_vars

\* The export page with its scheduling: a status check that was sent is
\* answered, a poll timer that was set fires after its two seconds, and the
\* remote goes on with its jobs.
SpecExportPageFair ==
    /\ InitExport
    /\ [][ExportPageNext]_vars
    /\ WF_vars(ExportPoll)
    /\ WF_vars(ExportPollTimerFires)
    /\ WF_vars(RemoteAdvance)

ExportSharedNext ==
    \/ ExportPageNext
    \/ ExpBeginElsewhere
    \/ ExpReturnElsewhere

\* The export page while another session of the shop exports as well.
SpecExportShared == InitExport /\ [][ExportSharedNext]_vars

\* The sheets imported through the page: one or two queued rows, alone or
\* next to a row that is rejected or skipped.
PageSheets ==
    { <<Row(Str(<<"a">>), Num(9), Undef)>>,
      <<Row(Str(<<"a">>), Num(5), Undef)>>,
      <<Row(Str(<<"a">>), Num(9), Undef), Row(Str(<<"b">>), Num(9), Undef)>>,
      <<Row(Str(<<"a">>), Num(9), Undef), Row(Str(<<"x">>), Num(9), Undef)>>,
      <<Row(Str(<<"a">>), Num(5), Undef), Row(Str(<<"b">>), Num(9), Undef)>> }

InitImportPage ==
    /\ rows \in PageSheets
    /\ locationId = "L1"
    /\ listing = ListingPaged
    /\ exportArtifact = ArtifactInOrder
    /\ importRun = 1
    /\ webhook = NoWebhook
    /\ ImportIdle
    /\ ExportIdle
    /\ ExportPageIdle
    /\ ImportPageIdle
    /\ jobs = << >>

ImportPageNext ==
    \/ HandleFileChange
    \/ ImportForPage
    \/ ImpReturnToPage
    \/ ImpThrowToPage
    \/ ImportPoll
    \/ ImportPollTimerFires
    \/ ImportHideTimerFires
    \/ RemoteAdvance

\* The import page, the import action and the remote system.
SpecImportPage == InitImportPage /\ [][ImportPageNext]_vars

\* The export page waits for the first status check of its export while the
\* read job has completed: every artifact, every location choice.
InitTree ==
    /\ rows = << >>
    /\ locationId = "ALL_LOCATIONS"
    /\ listing = ListingPaged
    /\ exportArtifact \in Artifacts
    /\ importRun = 1
    /\ webhook = NoWebhook
    /\ ImportIdle
    /\ ExportIdle
    /\ ImportPageIdle
    /\ jobs = <<[kind |-> "READ", status |-> "COMPLETED", uncancelled |-> {}]>>
    /\ \E selectedLocation \in LocationChoices :
          /\ exportFetcher =
                [ state |-> "idle",
                  data |-> [ success |-> TRUE, status |-> "CREATED", error |-> "none",
                             locationId |-> selectedLocation, operationId |-> 1 ] ]
          /\ currentExport = [operationId |-> 1, locationId |-> selectedLocation]
          /\ exportPollFetcher =
                [request |-> 1, locationId |-> selectedLocation, data |-> NoData]
    /\ exportProgressVisible = TRUE
    /\ exportPollTimer = FALSE
    /\ exportHideTimer = FALSE
    /\ exportToast = "Export started..."
    /\ pollLog = << >>
    /\ artifactReads = 0
    /\ downloads = 0

TreeNext ==
    \/ ExportPoll
    \/ ExportHideTimerFires

\* The status check of a completed read job, for every artifact.
SpecTree == InitTree /\ [][TreeNext]_vars

\* Records of a catalogue with a variant whose sku is empty and a variant
\* without inventory item, each with a level listed under it.
VariantNoSku == VariantRecord(3, "", 1, 3, << >>)

VariantNoItem ==
    [VariantRecord(4, "s4", 1, 0, << >>) EXCEPT !.inventoryItem = NoId]

LevelOfNoSku ==
    LevelRecord(5, RecordId("ProductVariant", 3), [id |-> "L1", name |-> "Main"], <<5>>)

LevelOfNoItem ==
    LevelRecord(4, RecordId("ProductVariant", 4), [id |-> "L1", name |-> "Main"], <<6>>)

TagPool ==
    {Product1, Variant1, VariantNoSku, VariantNoItem, Level1, LevelOfNoSku, LevelOfNoItem}

\* The artifacts of at most MaxLines of these records, each at most once.
TagArtifacts ==
    { lines \in SeqsUpTo(TagPool, MaxLines) :
        \A i, j \in 1..Len(lines) : lines[i] = lines[j] => i = j }

\* The page waits for the first status check of a COMPLETED read job whose
\* artifact is made of these records.
InitTags ==
    /\ rows = << >>
    /\ locationId = "ALL_LOCATIONS"
    /\ listing = ListingPaged
    /\ exportArtifact \in TagArtifacts
    /\ importRun = 1
    /\ webhook = NoWebhook
    /\ ImportIdle
    /\ ExportIdle
    /\ ImportPageIdle
    /\ jobs = <<[kind |-> "READ", status |-> "COMPLETED", uncancelled |-> {}]>>
    /\ \E selectedLocation \in LocationChoices :
          /\ exportFetcher =
                [ state |-> "idle",
                  data |-> [ success |-> TRUE, status |-> "CREATED", error |-> "none",
                             locationId |-> selectedLocation, operationId |-> 1 ] ]
          /\ currentExport = [operationId |-> 1, locationId |-> selectedLocation]
          /\ exportPollFetcher =
                [request |-> 1, locationId |-> selectedLocation, data |-> NoData]
    /\ exportProgressVisible = TRUE
    /\ exportPollTimer = FALSE
    /\ exportHideTimer = FALSE
    /\ exportToast = "Export started..."
    /\ pollLog = << >>
    /\ artifactReads = 0
    /\ downloads = 0

SpecTags == InitTags /\ [][TreeNext]_vars

\* inventorySetQuantities (the mutation of lines 376-381) for one diff: the
\* level of the diff's inventory item at the diff's location holds the
\* diff's quantity.
SetQuantity(variant, diff) ==
    IF variant.inventoryItemId # diff.inventoryItemId THEN variant
    ELSE [variant EXCEPT !.levels =
             [k \in 1..Len(@) |-> IF @[k].location = diff.locationId
                                  THEN Level(diff.locationId, diff.quantity)
                                  ELSE @[k]]]

RECURSIVE Applied(_, _)
\* The listing after the write job has applied the diffs, in order.
Applied(pages, diffs) ==
    IF diffs = << >> THEN pages
    ELSE Applied([p \in 1..Len(pages) |->
                     [k \in 1..Len(pages[p]) |-> SetQuantity(pages[p][k], Head(diffs))]],
                 Tail(diffs))

\* The write job of the first import has completed and the store holds the
\* quantity of every queued diff; the same sheet is imported again.
SecondImport ==
    /\ importRun = 1
    /\ impPc = "returned"
    /\ results.bulkOperationId # NoOp
    /\ jobs[results.bulkOperationId].status = "COMPLETED"
    /\ importRun' = 2
    /\ listing' = Applied(listing, bulkUpdates)
    /\ impPc' = "idle"
    /\ allLocations' = << >>
    /\ selectedLocationName' = Undef
    /\ skuMap' = EmptyMap
    /\ hasNextPage' = TRUE
    /\ endCursor' = 0
    /\ results' = InitialResults(<< >>)
    /\ processedCombinations' = {}
    /\ bulkUpdates' = << >>
    /\ jsonlLines' = << >>
    /\ uploadPath' = "none"
    /\ impCalls' = << >>
    /\ UNCHANGED << rows, locationId, exportArtifact, webhook, jobs >>
    /\ UNCHANGED exceptImport

RerunNext ==
    \/ ImportNext
    \/ RemoteAdvance
    \/ SecondImport

\* One sheet imported twice, the second time after the first write job has
\* completed.
SpecRerun == InitImport /\ [][RerunNext]_vars

\* The quantity cells a sheet can carry: missing, empty, text without a
\* number, text with a numeric prefix, a fractional number, and integers as
\* number and as text.
QuantityCells ==
    { Undef, Str(<< >>), Str(<<"x">>), Str(<<"9","x">>), Str(<<"9",".","5">>), NumFrac(9),
      Num(9), Str(<<"9">>), Str(<<" ","9">>), Str(<<"-","9">>) }

InitQuantity ==
    /\ rows \in { <<Row(Str(<<"a">>), q, Undef)>> : q \in QuantityCells }
    /\ locationId = "L1"
    /\ listing = ListingPaged
    /\ exportArtifact = ArtifactInOrder
    /\ importRun = 1
    /\ webhook = NoWebhook
    /\ ImportIdle
    /\ ExportIdle
    /\ ExportPageIdle
    /\ ImportPageIdle
    /\ jobs = << >>

\* The import action for one row, for every kind of quantity cell.
SpecQuantity == InitQuantity /\ [][ImportNext]_vars

\* A listing with a SKU that starts with a blank.
ListingSpaced ==
    << << Variant(Str(<<" ","a">>), "I6", <<Level("L1", 5)>>),
          Variant(Str(<<"b">>), "I3", <<Level("L1", 5)>>) >> >>

\* Rows whose SKU differs from a listed one in case or not at all.
IndexRows ==
    { Row(Str(<<"A">>), Num(9), Undef),
      Row(Str(<<"a">>), Num(8), Undef),
      Row(Str(<<" ","a">>), Num(9), Undef),
      Row(Str(<<"B">>), Num(9), Undef) }

\* An import at location L1 of at most MaxRows of these rows, against a
\* listing with SKUs equal under case folding or one with a blank in a SKU.
InitIndex ==
    /\ rows \in SeqsUpTo(IndexRows, MaxRows) \ {<< >>}
    /\ locationId = "L1"
    /\ listing \in {ListingFolded, ListingSpaced}
    /\ exportArtifact = ArtifactInOrder
    /\ importRun = 1
    /\ webhook = NoWebhook
    /\ ImportIdle
    /\ ExportIdle
    /\ ExportPageIdle
    /\ ImportPageIdle
    /\ jobs = << >>

SpecIndex == InitIndex /\ [][ImportNext]_vars

\* The webhook route answers one request; nothing else is under way.
InitWebhook ==
    /\ rows = << >>
    /\ locationId = "ALL_LOCATIONS"
    /\ listing = ListingPaged
    /\ exportArtifact = ArtifactInOrder
    /\ importRun = 1
    /\ webhook \in WebhookRequests
    /\ ImportIdle
    /\ ExportIdle
    /\ ExportPageIdle
    /\ ImportPageIdle
    /\ jobs = << >>

WebhookNext ==
    \/ WebhookMethod
    \/ WebhookVerify
    \/ WebhookAuthenticate
    \/ WebhookDispatch

SpecWebhook == InitWebhook /\ [][WebhookNext]_vars

\* Lines 9-16 of the export loader: the status of the operation the last
\* status check was about is requested once more.
ExportPollAgain ==
    /\ exportPollFetcher.request = NoOp
    /\ exportPollFetcher.data.operationId # NoOp
    /\ ~exportPollTimer
    /\ Len(pollLog) < MaxPolls
    /\ exportPollFetcher' =
          [exportPollFetcher EXCEPT !.request = exportPollFetcher.data.operationId]
    /\ UNCHANGED << exportFetcher, currentExport, exportProgressVisible, exportPollTimer,
                    exportHideTimer, exportToast, pollLog, artifactReads, downloads >>
    /\ UNCHANGED << sheetVars, impLocals, importPage, jobs, expLocals >>

\* Lines 8-15 of the import loader: the status of the operation the last
\* status check was about is requested once more.
ImportPollAgain ==
    /\ importPollFetcher.request = NoOp
    /\ importPollFetcher.data.operationId # NoOp
    /\ ~importPollTimer
    /\ importPollFetcher' =
          [importPollFetcher EXCEPT !.request = importPollFetcher.data.operationId]
    /\ UNCHANGED << importFetcher, validatedResults, finalResults, importProgressVisible,
                    importPollTimer, importHideTimer, importArtifact >>
    /\ UNCHANGED << sheetVars, impLocals, jobs, expLocals, exportPage >>

\* The requests of an import that ran to the end.
FullImportCalls ==
    << "getLocation", "getInventoryData", "getInventoryData", "stagedUploadsCreate",
       "upload", "bulkOperationRunMutation" >>

\* An export has been started from its page, its job has ended, and the page
\* waits for the answer to the first status check.
InitExportEnded ==
    /\ rows = << >>
    /\ locationId = "ALL_LOCATIONS"
    /\ ImportIdle
    /\ ImportPageIdle
    /\ \E r \in TerminalStatuses :
          jobs = <<[kind |-> "READ", status |-> r, uncancelled |-> {}]>>
    /\ \E selectedLocation \in LocationChoices :
          /\ exportFetcher =
                [ state |-> "idle",
                  data |-> [ success |-> TRUE, status |-> "CREATED", error |-> "none",
                             locationId |-> selectedLocation, operationId |-> 1 ] ]
          /\ currentExport = [operationId |-> 1, locationId |-> selectedLocation]
          /\ exportPollFetcher =
                [request |-> 1, locationId |-> selectedLocation, data |-> NoData]
    /\ exportProgressVisible = TRUE
    /\ exportToast = "Export started..."

\* An import of two queued rows has been started from its page, its job has
\* ended, and the page waits for the answer to the first status check.
InitImportEnded ==
    /\ rows = << Row(Str(<<"a">>), Num(9), Undef), Row(Str(<<"b">>), Num(9), Undef) >>
    /\ locationId = "L1"
    /\ \E w \in TerminalStatuses :
          jobs = <<[kind |-> "WRITE", status |-> w, uncancelled |-> {}]>>
    /\ allLocations = << >>
    /\ selectedLocationName = Str(<<"N">>)
    /\ skuMap = IndexPage(listing[2], IndexPage(listing[1], EmptyMap))
    /\ hasNextPage = FALSE
    /\ endCursor = 2
    /\ LET acc == ValidateFrom([ results |-> InitialResults(rows),
                                 processedCombinations |-> {},
                                 bulkUpdates |-> << >> ], 1)
       IN  /\ results = [acc.results EXCEPT !.bulkOperationId = 1]
           /\ processedCombinations = acc.processedCombinations
           /\ bulkUpdates = acc.bulkUpdates
           /\ jsonlLines = PlanBatches(acc.bulkUpdates, << >>, << >>)
    /\ uploadPath = "key"
    /\ impCalls = FullImportCalls
    /\ impPc = "returned"
    /\ exportFetcher = [state |-> "idle", data |-> NoResponse]
    /\ currentExport = NoExport
    /\ exportPollFetcher = [request |-> NoOp, locationId |-> "none", data |-> NoData]
    /\ exportProgressVisible = FALSE
    /\ exportToast = "none"
    /\ importFetcher = [state |-> "idle", data |-> <<results>>]
    /\ validatedResults = <<results>>
    /\ finalResults = << >>
    /\ importProgressVisible = TRUE
    /\ importPollFetcher = [request |-> 1, data |-> NoBulkData]
    /\ importPollTimer = FALSE
    /\ importHideTimer = FALSE
    /\ importArtifact = NoArtifact

InitPollAgain ==
    /\ listing = ListingPaged
    /\ exportArtifact = ArtifactInOrder
    /\ importRun = 1
    /\ webhook = NoWebhook
    /\ ExportIdle
    /\ exportPollTimer = FALSE
    /\ exportHideTimer = FALSE
    /\ pollLog = << >>
    /\ artifactReads = 0
    /\ downloads = 0
    /\ (InitExportEnded \/ InitImportEnded)

PollAgainNext ==
    \/ ExportPoll
    \/ ExportPollAgain
    \/ ExportHideTimerFires
    \/ ImportPoll
    \/ ImportPollAgain
    \/ ImportHideTimerFires

\* Status checks of jobs that have ended, asked again and again.
SpecPollAgain == InitPollAgain /\ [][PollAgainNext]_vars

\* Lines 367 and 384 of the export page: the answer to a status check of an
\* operation other than the current one is still to come.
ExportPollLate ==
    /\ exportPollFetcher.request = NoOp
    /\ currentExport # NoExport
    /\ Len(pollLog) < MaxPolls
    /\ \E op \in JobIds :
          /\ op # currentExport.operationId
          /\ exportPollFetcher' = [exportPollFetcher EXCEPT !.request = op]
    /\ UNCHANGED << exportFetcher, currentExport, exportProgressVisible, exportPollTimer,
                    exportHideTimer, exportToast, pollLog, artifactReads, downloads >>
    /\ UNCHANGED << sheetVars, impLocals, importPage, jobs, expLocals >>

\* Lines 507 and 529 of the import page: the answer to a status check of an
\* operation other than the run's is still to come.
ImportPollLate ==
    /\ importPollFetcher.request = NoOp
    /\ PolledOperation # NoOp
    /\ finalResults = << >>
    /\ \E op \in JobIds :
          /\ op # PolledOperation
          /\ importPollFetcher' = [importPollFetcher EXCEPT !.request = op]
    /\ UNCHANGED << importFetcher, validatedResults, finalResults, importProgressVisible,
                    importPollTimer, importHideTimer, importArtifact >>
    /\ UNCHANGED << sheetVars, impLocals, jobs, expLocals, exportPage >>

\* A second export has just been started from the page: the first one is
\* COMPLETED and its answer is what the poll fetcher still holds.
InitSecondExport ==
    /\ rows = << >>
    /\ locationId = "ALL_LOCATIONS"
    /\ ImportIdle
    /\ ImportPageIdle
    /\ \E status \in {"CREATED", "RUNNING"} :
          jobs = << [kind |-> "READ", status |-> "COMPLETED", uncancelled |-> {}],
                    [kind |-> "READ", status |-> status, uncancelled |-> {}] >>
    /\ \E selectedLocation \in LocationChoices :
          /\ exportFetcher =
                [ state |-> "idle",
                  data |-> [ success |-> TRUE, status |-> "CREATED", error |-> "none",
                             locationId |-> selectedLocation, operationId |-> 2 ] ]
          /\ currentExport = [operationId |-> 2, locationId |-> selectedLocation]
          /\ exportPollFetcher =
                [ request |-> 2, locationId |-> selectedLocation,
                  data |-> [ status |-> "COMPLETED", error |-> "none",
                             rows |-> ExportRows(exportArtifact, "ALL_LOCATIONS"),
                             operationId |-> 1 ] ]
    /\ exportProgressVisible = TRUE
    /\ exportToast = "Export started..."

\* A second import of two queued rows has just returned to the page: the write
\* job of the first one is COMPLETED and its answer is what the poll fetcher
\* still holds.
InitSecondImport ==
    /\ rows = << Row(Str(<<"a">>), Num(9), Undef), Row(Str(<<"b">>), Num(9), Undef) >>
    /\ locationId = "L1"
    /\ \E status \in {"CREATED", "RUNNING"} :
          jobs = << [kind |-> "WRITE", status |-> "COMPLETED", uncancelled |-> {}],
                    [kind |-> "WRITE", status |-> status, uncancelled |-> {}] >>
    /\ allLocations = << >>
    /\ selectedLocationName = Str(<<"N">>)
    /\ skuMap = IndexPage(listing[2], IndexPage(listing[1], EmptyMap))
    /\ hasNextPage = FALSE
    /\ endCursor = 2
    /\ LET acc == ValidateFrom([ results |-> InitialResults(rows),
                                 processedCombinations |-> {},
                                 bulkUpdates |-> << >> ], 1)
       IN  /\ results = [acc.results EXCEPT !.bulkOperationId = 2]
           /\ processedCombinations = acc.processedCombinations
           /\ bulkUpdates = acc.bulkUpdates
           /\ jsonlLines = PlanBatches(acc.bulkUpdates, << >>, << >>)
    /\ uploadPath = "key"
    /\ impCalls = FullImportCalls
    /\ impPc = "returned"
    /\ exportFetcher = [state |-> "idle", data |-> NoResponse]
    /\ currentExport = NoExport
    /\ exportPollFetcher = [request |-> NoOp, locationId |-> "none", data |-> NoData]
    /\ exportProgressVisible = FALSE
    /\ exportToast = "none"
    /\ importFetcher = [state |-> "idle", data |-> <<results>>]
    /\ validatedResults = <<results>>
    /\ finalResults = << >>
    /\ importProgressVisible = TRUE
    /\ importPollFetcher =
          [ request |-> 2,
            data |-> [ status |-> "COMPLETED", operationId |-> 1,
                       bulkResults |-> [updated |-> 1, errors |-> << >>] ] ]
    /\ importPollTimer = FALSE
    /\ importHideTimer = FALSE
    /\ importArtifact = NoArtifact

InitLate ==
    /\ listing = ListingPaged
    /\ exportArtifact = ArtifactInOrder
    /\ importRun = 2
    /\ webhook = NoWebhook
    /\ ExportIdle
    /\ exportPollTimer = FALSE
    /\ exportHideTimer = FALSE
    /\ pollLog = << >>
    /\ artifactReads = 0
    /\ downloads = 0
    /\ (InitSecondExport \/ InitSecondImport)

LateNext ==
    \/ ExportPoll
    \/ ExportPollTimerFires
    \/ ExportHideTimerFires
    \/ ExportPollLate
    \/ ImportPoll
    \/ ImportPollTimerFires
    \/ ImportHideTimerFires
    \/ ImportPollLate
    \/ RemoteAdvance

\* The polling of a second export or import, with late answers about the
\* first one.
SpecLate == InitLate /\ [][LateNext]_vars

\* ================================================================== claims
\* The validation loop has just run over every row: the action is about to
\* request the upload target, or has returned because nothing was queued.
ValidationDone ==
    \/ impPc = "stage"
    \/ impPc = "returned" /\ Len(bulkUpdates) = 0

RowIds == 1..Len(rows)

AcceptedIds == {bulkUpdates[k].idx : k \in 1..Len(bulkUpdates)}

SkippedIds == {results.skippedRows[k].idx : k \in 1..Len(results.skippedRows)}

RejectedIds == {results.failedRows[k].idx : k \in 1..Len(results.failedRows)}

ReasonOf(i) ==
    results.failedRows[CHOOSE k \in 1..Len(results.failedRows) :
                           results.failedRows[k].idx = i].reason

DiffOf(i) == bulkUpdates[CHOOSE k \in 1..Len(bulkUpdates) : bulkUpdates[k].idx = i]

\* How often row i appears over the three outcome collections.
OutcomeCount(i) ==
    Cardinality({k \in 1..Len(bulkUpdates) : bulkUpdates[k].idx = i})
    + Cardinality({k \in 1..Len(results.skippedRows) : results.skippedRows[k].idx = i})
    + Cardinality({k \in 1..Len(results.failedRows) : results.failedRows[k].idx = i})

DuplicateReason == "You have identical row having same SKU and location"

LocationReasons ==
    { "Inventory Location is required for All Locations mode",
      "Location not found in store", "Location mismatch", "TypeError" }

IndexReasons == {"Variant not found", "SKU don't have this location"}

\* The rules of the row validator, stated on the input row alone.
HasSku(i) == Truthy(rows[i]["SKU"]) /\ rows[i]["SKU"] # Str(<<"S","K","U">>)

RowSkuKey(i) == ToLowerCase(Trim(JsString(rows[i]["SKU"])))

RowQuantity(i) == ParseInt(rows[i]["Quantity Available"])

RowLabel(i) ==
    IF Truthy(rows[i]["Inventory Location"])
    THEN ToLowerCase(Trim(JsString(rows[i]["Inventory Location"])))
    ELSE << >>

LabelMatches(i) == {j \in 1..Len(allLocations) : ToLowerCase(allLocations[j].name) = RowLabel(i)}

\* Rule 1: the quantity is missing or invalid.
InvalidQuantity(i) == RowQuantity(i).nan

\* Rule 2: the location does not resolve.
LocationUnresolved(i) ==
    IF isAllLocationsMode
    THEN RowLabel(i) = << >> \/ LabelMatches(i) = {}
    ELSE /\ RowLabel(i) # << >>
         /\ \/ selectedLocationName.t = "undef"
            \/ RowLabel(i) # ToLowerCase(selectedLocationName.s)

\* The location a row resolves to (its id), for rows passing rules 1 and 2.
ResolvedLocation(i) ==
    IF isAllLocationsMode
    THEN allLocations[CHOOSE j \in LabelMatches(i) : \A h \in LabelMatches(i) : j <= h].id
    ELSE locationId

\* Row i reaches the duplicate check.
Resolves(i) == HasSku(i) /\ ~InvalidQuantity(i) /\ ~LocationUnresolved(i)

SamePair(i, j) ==
    /\ Resolves(i) /\ Resolves(j)
    /\ RowSkuKey(i) = RowSkuKey(j)
    /\ ResolvedLocation(i) = ResolvedLocation(j)

\* Rule 3 as the specification words it: an earlier row has the same
\* (case-folded SKU, resolved location) pair.
RepeatsPair(i) == \E j \in 1..(i - 1) : SamePair(j, i)

\* The name the combination key is built from.
ResolvedName(i) ==
    IF isAllLocationsMode
    THEN Str(allLocations[CHOOSE j \in LabelMatches(i) : \A h \in LabelMatches(i) : j <= h].name)
    ELSE selectedLocationName

RowKey(i) == RowSkuKey(i) \o <<"|">> \o JsString(ResolvedName(i))

\* Rule 3 as the loop decides it: an earlier row that reached the duplicate
\* check built the same combination key.
RepeatsKey(i) == \E j \in 1..(i - 1) : Resolves(j) /\ RowKey(j) = RowKey(i)

\* Rule 4: the SKU is not indexed, or not stocked at the resolved location.
NotIndexed(i) ==
    \/ RowSkuKey(i) \notin DOMAIN skuMap
    \/ ResolvedLocation(i) \notin DOMAIN skuMap[RowSkuKey(i)].levels

\* Rule 5: the quantity equals the indexed one.
AlreadyMatches(i) == skuMap[RowSkuKey(i)].levels[ResolvedLocation(i)] = RowQuantity(i).v

ExpectedDiff(i) ==
    [ idx |-> i, inventoryItemId |-> skuMap[RowSkuKey(i)].inventoryItemId,
      locationId |-> ResolvedLocation(i), quantity |-> RowQuantity(i).v ]

\* Row i's outcome is the one the first failing rule gives, rule 3 being
\* decided by repeats(i).
DecidedInOrder(i, repeats) ==
    IF InvalidQuantity(i)
    THEN i \in RejectedIds /\ ReasonOf(i) = "Invalid or missing quantity value"
    ELSE IF LocationUnresolved(i)
    THEN i \in RejectedIds /\ ReasonOf(i) \in LocationReasons
    ELSE IF repeats
    THEN i \in RejectedIds /\ ReasonOf(i) = DuplicateReason
    ELSE IF NotIndexed(i)
    THEN i \in RejectedIds /\ ReasonOf(i) \in IndexReasons
    ELSE IF AlreadyMatches(i)
    THEN i \in SkippedIds
    ELSE i \in AcceptedIds /\ DiffOf(i) = ExpectedDiff(i)

C2_EveryRowOneOutcome ==
    ValidationDone =>
        /\ \A i \in RowIds : OutcomeCount(i) = 1
        /\ results.total =
              Len(bulkUpdates) + Len(results.skippedRows) + Len(results.failedRows)

IgnoredIds == {i \in RowIds : ~HasSku(i)}

\* C2 amended: after the validation loop every row with a SKU other than the
\* header text "SKU" has exactly one outcome and every other row has none, so
\* total = accepted + skipped + rejected + ignored rows.
C2_ProcessedRowOneOutcome ==
    ValidationDone =>
        /\ \A i \in RowIds : OutcomeCount(i) = (IF HasSku(i) THEN 1 ELSE 0)
        /\ AcceptedIds \cup SkippedIds \cup RejectedIds = RowIds \ IgnoredIds
        /\ results.total =
              Len(bulkUpdates) + Len(results.skippedRows) + Len(results.failedRows)
              + Cardinality(IgnoredIds)

\* A validated run with an accepted row and an ignored header row.
C2_Witness ==
    /\ ValidationDone
    /\ Len(rows) = 2
    /\ AcceptedIds = {1}
    /\ IgnoredIds = {2}
    /\ results.total = 2

\* Row i's quantity equals the indexed quantity of its SKU at its resolved
\* location.
QuantityEqualsIndexed(i) == Resolves(i) /\ ~NotIndexed(i) /\ AlreadyMatches(i)

\* C3 as stated: a row whose quantity equals the indexed quantity of its SKU
\* at its resolved location is Skipped, never Accepted.
C3_EqualQuantitySkipped ==
    ValidationDone =>
        \A i \in RowIds : QuantityEqualsIndexed(i) => i \in SkippedIds /\ i \notin AcceptedIds

\* C3 amended: a row (with a SKU other than the header text) whose quantity
\* equals the indexed quantity of its SKU at its resolved location is never
\* Accepted and no diff is queued for it: it is Skipped, unless an earlier
\* row already used its combination key, and then it is Rejected as a
\* duplicate row.
C3_EqualQuantityNeverAccepted ==
    ValidationDone =>
        \A i \in RowIds :
            QuantityEqualsIndexed(i) =>
                /\ i \notin AcceptedIds
                /\ IF RepeatsKey(i)
                   THEN i \in RejectedIds /\ ReasonOf(i) = DuplicateReason
                   ELSE i \in SkippedIds

\* A validated run where a row with the indexed quantity was skipped.
C3_Witness ==
    /\ ValidationDone
    /\ \E i \in RowIds : QuantityEqualsIndexed(i) /\ ~RepeatsKey(i) /\ i \in SkippedIds
    /\ \E i \in RowIds : i \in AcceptedIds

\* C4: of the rows of one run that resolve to the same (case-folded SKU,
\* location) pair only the first can be processed: every later one is
\* Rejected as a duplicate row, and at most one diff is queued per pair.
C4_LaterRowsOfPairRejected ==
    ValidationDone =>
        /\ \A i, j \in RowIds :
              (i < j /\ SamePair(i, j)) =>
                  /\ j \in RejectedIds /\ ReasonOf(j) = DuplicateReason
                  /\ j \notin AcceptedIds /\ j \notin SkippedIds
        /\ \A i, j \in AcceptedIds : SamePair(i, j) => i = j
        /\ \A k, m \in 1..Len(bulkUpdates) :
              ( /\ bulkUpdates[k].inventoryItemId = bulkUpdates[m].inventoryItemId
                /\ bulkUpdates[k].locationId = bulkUpdates[m].locationId ) => k = m

\* A run with two rows of one pair, differing in SKU case: the first is
\* queued, the second rejected as a duplicate.
C4_Witness ==
    /\ ValidationDone
    /\ Len(rows) = 2
    /\ SamePair(1, 2)
    /\ rows[1]["SKU"] # rows[2]["SKU"]
    /\ 1 \in AcceptedIds
    /\ 2 \in RejectedIds /\ ReasonOf(2) = DuplicateReason

\* ------------------------------------------------- C5: one job at a time
RunningJobs == {j \in JobIds : jobs[j].status \in {"CREATED", "RUNNING"}}

\* C5: at most one submitted job is CREATED or RUNNING at a time, and every
\* job (read or write) submitted while an earlier job was not terminal was
\* preceded by a cancel request for that earlier job.
C5_OneActiveJobCancelledFirst ==
    /\ Cardinality(RunningJobs) <= 1
    /\ \A j \in JobIds : jobs[j].uncancelled = {}

\* ------------------------------------------------- C6: cancel and retry
CallsOf(op) == {k \in 1..Len(expCalls) : expCalls[k].op = op}

Submissions == Cardinality(CallsOf("bulkOperationRunQuery"))

FirstSubmission == CHOOSE k \in CallsOf("bulkOperationRunQuery") :
                      \A h \in CallsOf("bulkOperationRunQuery") : k <= h

\* The first submission was answered "in progress": the current operation
\* was looked up after it.
FirstAnsweredInProgress ==
    /\ Submissions > 0
    /\ \E k \in CallsOf("currentBulkOperation") : k > FirstSubmission

RetryCancels == {k \in CallsOf("bulkOperationCancel") : Submissions > 0 /\ k > FirstSubmission}

Resubmissions == {k \in CallsOf("bulkOperationRunQuery") : k > FirstSubmission}

ExportPollAnswered ==
    /\ currentExport # NoExport
    /\ exportPollFetcher.request = currentExport.operationId
    /\ exportPollFetcher'.request = NoOp

\* C7: every answer to a status check of the active export either schedules
\* one further poll (status RUNNING, which stands for RUNNING and CREATED) or
\* ends the loop (COMPLETED, FAILED, CANCELED, NONE): no poll is scheduled or
\* in flight and the active export is cleared.
C7_PollReschedulesOrTerminates ==
    [][ ExportPollAnswered =>
          IF exportPollFetcher'.data.status = "RUNNING"
          THEN exportPollTimer' /\ currentExport' = currentExport
          ELSE IF exportPollFetcher'.data.status \in {"COMPLETED", "FAILED", "CANCELED", "NONE"}
          THEN ~exportPollTimer' /\ currentExport' = NoExport
          ELSE TRUE ]_vars

\* ------------------------------------------------- C8: one read, one delivery
CompletedRun == <<"CREATED", "RUNNING", "RUNNING", "COMPLETED">>

NoPollPending == ~exportPollTimer /\ exportPollFetcher.request = NoOp

SeenCompleted == \E k \in 1..Len(pollLog) : pollLog[k] = "COMPLETED"

\* C8 as stated: polls that saw CREATED, RUNNING, RUNNING, COMPLETED have
\* read the result artifact exactly once and delivered the result exactly
\* once, and no further poll is scheduled.
C8_OneReadOneDelivery ==
    (pollLog = CompletedRun) => (artifactReads = 1 /\ downloads = 1 /\ NoPollPending)

\* C8, amended: the artifact is not read and nothing is delivered before a
\* poll sees COMPLETED; after CREATED, RUNNING, RUNNING, COMPLETED no poll is
\* scheduled, the artifact was read exactly once if the completed job carried
\* a url and not at all otherwise, and the result was delivered exactly once
\* if the read succeeded and the workbook was generated and not at all
\* otherwise.
C8_AtMostOneReadOneDelivery ==
    /\ ~SeenCompleted => (artifactReads = 0 /\ downloads = 0)
    /\ (pollLog = CompletedRun) =>
          /\ NoPollPending
          /\ currentExport = NoExport
          /\ artifactReads =
                (IF exportPollFetcher.data.error = "No URL in completed bulk operation"
                 THEN 0 ELSE 1)
          /\ downloads =
                (IF exportPollFetcher.data.status = "COMPLETED" /\ exportToast = "Export complete"
                 THEN 1 ELSE 0)

\* The four polls have happened, the artifact was read once and the workbook
\* downloaded once.
C8_Witness ==
    /\ pollLog = CompletedRun
    /\ artifactReads = 1
    /\ downloads = 1
    /\ NoPollPending

\* ------------------------------------------------- C9: a failed write job
\* The last status check answered that the polled write job failed, was
\* cancelled or does not exist.
WriteJobFailed ==
    /\ PolledOperation # NoOp
    /\ importPollFetcher.data.operationId = PolledOperation
    /\ importPollFetcher.data.status \in {"FAILED", "CANCELED", "NONE"}

ImportPollingStopped == ~importPollTimer /\ importPollFetcher.request = NoOp

MutationSubmissions ==
    Cardinality({k \in 1..Len(impCalls) : impCalls[k] = "bulkOperationRunMutation"})

\* C9: once the import page has been told that its write job failed, was
\* cancelled or was not found, and has stopped polling, it has left its
\* in-progress state (progress hidden, button not loading) and has not
\* submitted the job again.
C9_FailedJobLeavesInProgress ==
    (WriteJobFailed /\ ImportPollingStopped) =>
        /\ ~importProgressVisible
        /\ ~ImportButtonLoading
        /\ MutationSubmissions = 1

\* The page fetches the import action has issued.
PageFetches == Cardinality({k \in 1..Len(impCalls) : impCalls[k] = "getInventoryData"})

\* A page fetch failed: it threw, or its response carried no listing data, so
\* fewer pages were indexed than were requested.
PageFetchFailed == PageFetches > endCursor

StageAttempted ==
    \E k \in 1..Len(impCalls) :
        impCalls[k] \in {"stagedUploadsCreate", "upload", "bulkOperationRunMutation"}

\* C10: once a page fetch of the remote listing has failed, the import has
\* aborted with an error: no row is classified (against the partial index)
\* and no staged upload or mutation job is attempted.
C10_FailedFetchAbortsImport ==
    PageFetchFailed =>
        /\ results.failedRows = << >> /\ results.skippedRows = << >> /\ bulkUpdates = << >>
        /\ ~StageAttempted

\* ------------------------------------------------- C11: the index builder
\* The fetch loop has just ended.
PrefetchEnded == impPc = "prefetch" /\ ~hasNextPage

\* The index keys of the listed variants that have a SKU.
ListedKeys ==
    { ToLowerCase(JsString(listing[p][k].sku)) :
        <<p, k>> \in { pk \in (1..Len(listing)) \X (1..2) :
                          /\ pk[2] <= Len(listing[pk[1]])
                          /\ Truthy(listing[pk[1]][pk[2]].sku) } }

\* C11: the fetch loop ends exactly when a page has reported hasNextPage
\* false, after one request per page, and the index then has an entry for
\* every listed variant with a non-empty SKU of every page.
C11_IndexCoversListing ==
    PrefetchEnded =>
        /\ endCursor = Len(listing)
        /\ PageFetches = Len(listing)
        /\ ListedKeys \subseteq DOMAIN skuMap

\* ------------------------------------------------- C12: upload-stage failures
\* What validation computes from the rows and the index.
Validated ==
    ValidateFrom([ results |-> InitialResults(rows), processedCombinations |-> {},
                   bulkUpdates |-> << >> ], 1)

\* The action has ended after a staged-upload step and without a job id: a
\* step failed.
StageFailed ==
    /\ StageAttempted
    /\ impPc \in {"returned", "threw"}
    /\ results.bulkOperationId = NoOp

\* C12: after a failure of the target request, the upload or the job
\* trigger, the action has returned its report, with no job id and with the
\* rejected and skipped rows of validation.
C12_StageFailureReturnsReport ==
    StageFailed =>
        /\ impPc = "returned"
        /\ results.failedRows = Validated.results.failedRows
        /\ results.skippedRows = Validated.results.skippedRows

\* ------------------------------------------------- C13: pipeline order
StageCalls == SelectSeq(impCalls, LAMBDA c :
                  c \in {"stagedUploadsCreate", "upload", "bulkOperationRunMutation"})

Pipeline == <<"stagedUploadsCreate", "upload", "bulkOperationRunMutation">>

Issued(call) == \E k \in 1..Len(impCalls) : impCalls[k] = call

HasError(text) == \E k \in 1..Len(results.errors) : results.errors[k] = text

\* C13: the staged-upload requests of a run are a prefix of target request,
\* upload, job trigger; the upload is issued only with a staged target and
\* the trigger only after an upload that was ok.
C13_StageUploadTriggerInOrder ==
    /\ StageCalls = SubSeq(Pipeline, 1, Len(StageCalls))
    /\ Issued("upload") =>
          /\ uploadPath # "none"
          /\ ~HasError("Failed to create upload target")
          /\ ~HasError("Failed to get upload target URL")
    /\ Issued("bulkOperationRunMutation") => ~HasError("Upload failed")

\* A run that went through all three steps and started its job.
C13_Witness ==
    /\ StageCalls = Pipeline
    /\ impPc = "returned"
    /\ results.bulkOperationId # NoOp

\* ------------------------------------------------- C14: the batch planner
RECURSIVE Concat(_)
Concat(lines) ==
    IF lines = << >> THEN << >> ELSE Head(lines).quantities \o Concat(Tail(lines))

\* C14: every payload line holds between one and BATCH_SIZE diffs, and the
\* lines' diffs in order are the Accepted diffs in row order, so there are as
\* many lines as Accepted diffs.
C14_LinesPartitionDiffs ==
    (impPc = "stage") =>
        /\ \A k \in 1..Len(jsonlLines) :
              Len(jsonlLines[k].quantities) \in 1..BATCH_SIZE
        /\ Concat(jsonlLines) = bulkUpdates
        /\ Len(jsonlLines) = Len(bulkUpdates)
        /\ \A k \in 1..(Len(bulkUpdates) - 1) : bulkUpdates[k].idx < bulkUpdates[k + 1].idx

\* Two Accepted diffs have been planned into two lines.
C14_Witness ==
    /\ impPc = "stage"
    /\ Len(bulkUpdates) = 2
    /\ Len(jsonlLines) = 2

\* ------------------------------------------------------------- claims 15-17
\* The import page has merged the counts of its completed write job.
MergedWriteJob ==
    /\ PolledOperation # NoOp
    /\ finalResults # << >>
    /\ importPollFetcher.data.status = "COMPLETED"
    /\ importPollFetcher.data.operationId = PolledOperation

\* The positions of the artifact's units without errors, and the messages of
\* its erroring units in artifact order, among the first n lines.
UnitsApplied(n) ==
    {k \in 1..n : importArtifact.lines[k].kind = "ok"}

UnitErrors(n) ==
    LET failed == SelectSeq(SubSeq(importArtifact.lines, 1, n),
                            LAMBDA l : l.kind = "userErrors")
    IN  [k \in 1..Len(failed) |-> failed[k].message]

\* The lines of the artifact in front of its first malformed line.
LinesRead ==
    IF \E k \in 1..Len(importArtifact.lines) : importArtifact.lines[k].kind = "malformed"
    THEN (CHOOSE k \in 1..Len(importArtifact.lines) :
            /\ importArtifact.lines[k].kind = "malformed"
            /\ \A j \in 1..(k - 1) : importArtifact.lines[j].kind # "malformed") - 1
    ELSE Len(importArtifact.lines)

C16_MergeKeepsRowLists ==
    MergedWriteJob =>
        /\ finalResults[1].total = validatedResults[1].total
        /\ finalResults[1].failedRows = validatedResults[1].failedRows
        /\ finalResults[1].skippedRows = validatedResults[1].skippedRows

C16_Witness ==
    /\ MergedWriteJob
    /\ validatedResults[1].failedRows # << >>
    /\ importArtifact.hasUrl /\ importArtifact.readOk
    /\ importArtifact.lines[1].kind = "userErrors"
    /\ Len(finalResults[1].errors) = Len(validatedResults[1].errors) + 1
    /\ finalResults[1].failedRows = validatedResults[1].failedRows

\* C17: a status check that read the artifact of the completed write job
\* dropped only its malformed lines: every other line, those after a
\* malformed one included, is counted as applied or as an error.
C17_OnlyMalformedLineDropped ==
    ( /\ importPollFetcher.data.status = "COMPLETED"
      /\ importArtifact.hasUrl /\ importArtifact.readOk )
    =>  /\ importPollFetcher.data.bulkResults.updated =
              Cardinality(UnitsApplied(Len(importArtifact.lines)))
        /\ importPollFetcher.data.bulkResults.errors =
              UnitErrors(Len(importArtifact.lines))

\* ------------------------------------------------------------- claims 18-20
\* The status check has answered COMPLETED with the rows built from the
\* artifact.
TreeProjected == exportPollFetcher.data.status = "COMPLETED"

Tree == BuildTree(exportArtifact, EmptyTree)

Records(type) ==
    { exportArtifact[k] : k \in { j \in 1..Len(exportArtifact) :
                                     /\ exportArtifact[j].json
                                     /\ exportArtifact[j].id.type = type } }

Elements(seq) == { seq[k] : k \in 1..Len(seq) }

\* The variants attached to a product, and the levels attached to a variant.
VariantsOf(product) == Elements(Tree.variants[product.id])

LevelsOf_Variant(variant) ==
    IF variant.id \in DOMAIN Tree.inventoryLevels
    THEN Tree.inventoryLevels[variant.id] ELSE << >>

\* The level names the variant, directly or by its inventory item.
IsParentOf(variant, level) ==
    level.parentId = variant.id \/ level.parentId = variant.inventoryItem

\* The artifact's records sorted by hierarchy depth.
ByDepth ==
    SelectSeq(exportArtifact, LAMBDA r : r.json /\ r.id.type = "Product")
        \o SelectSeq(exportArtifact, LAMBDA r : r.json /\ r.id.type = "ProductVariant")
        \o SelectSeq(exportArtifact, LAMBDA r : r.json /\ r.id.type = "InventoryLevel")

\* C18: whatever the order of the artifact's records, every variant whose
\* product is in the artifact is attached to it, every level whose variant is
\* in the artifact is attached to it, and the rows are the same set as for
\* the records in hierarchy order.
C18_TreeIndependentOfOrder ==
    TreeProjected =>
        /\ \A product \in Records("Product"), variant \in Records("ProductVariant") :
              variant.parentId = product.id => variant \in VariantsOf(product)
        /\ \A variant \in Records("ProductVariant"), level \in Records("InventoryLevel") :
              IsParentOf(variant, level) => level \in Elements(LevelsOf_Variant(variant))
        /\ Elements(exportPollFetcher.data.rows) =
              Elements(ExportRows(ByDepth, exportPollFetcher.locationId))

\* The records of the artifact whose parent is not among its records.
Unresolved ==
    { variant \in Records("ProductVariant") :
          \A product \in Records("Product") : variant.parentId # product.id }
    \cup
    { level \in Records("InventoryLevel") :
          \A variant \in Records("ProductVariant") : ~IsParentOf(variant, level) }

MalformedLines == { k \in 1..Len(exportArtifact) : ~exportArtifact[k].json }

\* C19: the records with an unresolvable parent are counted in the build's
\* diagnostics (next to the lines that did not parse), and the status check
\* still answers COMPLETED with rows.
C19_UnresolvedRecordsCounted ==
    TreeProjected =>
        /\ Tree.consoleErrors = Cardinality(MalformedLines) + Cardinality(Unresolved)
        /\ exportPollFetcher.data.rows # << >>

\* The rows of the answer that carry the variant's SKU.
RowsOf(variant) ==
    SelectSeq(exportPollFetcher.data.rows, LAMBDA row : row.sku = variant.sku)

AttachedVariants ==
    UNION { VariantsOf(product) : product \in Elements(Tree.products) }

\* C20: for every variant attached to a product: without location filter it
\* has one row per level if it has levels, and exactly one placeholder row
\* (location N/A, quantity 0) if it has none; with a location filter it has
\* one row per level at that location, and none if there is no such level.
C20_RowsPerVariant ==
    TreeProjected =>
        \A variant \in AttachedVariants :
            LET levels == LevelsOf_Variant(variant)
                loc == exportPollFetcher.locationId
            IN  IF loc = "ALL_LOCATIONS"
                THEN IF Len(levels) >= 1
                     THEN /\ Len(RowsOf(variant)) = Len(levels)
                          /\ \A k \in 1..Len(levels) :
                                RowsOf(variant)[k].quantity =
                                    Num(IF levels[k].quantities = << >> THEN 0
                                        ELSE levels[k].quantities[1])
                     ELSE /\ Len(RowsOf(variant)) = 1
                          /\ RowsOf(variant)[1].location = "N/A"
                          /\ RowsOf(variant)[1].quantity = Num(0)
                ELSE Len(RowsOf(variant)) =
                        Cardinality({k \in 1..Len(levels) : levels[k].location.id = loc})

\* Two levels of one variant and a variant without levels are exported
\* without filter.
C20_Witness ==
    /\ TreeProjected
    /\ exportPollFetcher.locationId = "ALL_LOCATIONS"
    /\ \E v, w \in AttachedVariants :
          /\ Len(LevelsOf_Variant(v)) = 1 /\ Len(RowsOf(v)) = 1
          /\ LevelsOf_Variant(w) = << >> /\ Len(RowsOf(w)) = 1
    /\ Len(exportPollFetcher.data.rows) = 2

\* ------------------------------------------------------------- claims 21-30
\* The (product, variant, level) triples of the tree whose level passes the
\* location filter of the status check.
LevelPairs ==
    { pair \in [ product : Elements(Tree.products), variant : AttachedVariants,
                 level : Records("InventoryLevel") ] :
        /\ pair.variant \in VariantsOf(pair.product)
        /\ pair.level \in Elements(LevelsOf_Variant(pair.variant))
        /\ \/ exportPollFetcher.locationId = "ALL_LOCATIONS"
           \/ pair.level.location.id = exportPollFetcher.locationId }

\* The variants without any level, which the unfiltered mode shows with a
\* placeholder.
PlaceholderPairs ==
    { pair \in [product : Elements(Tree.products), variant : AttachedVariants] :
        /\ pair.variant \in VariantsOf(pair.product)
        /\ LevelsOf_Variant(pair.variant) = << >>
        /\ exportPollFetcher.locationId = "ALL_LOCATIONS" }

\* The rows the pairs stand for.
PairRows ==
    { LevelRow(pair.product, pair.variant, pair.level) : pair \in LevelPairs }
    \cup { PlaceholderRow(pair.product, pair.variant) : pair \in PlaceholderPairs }

\* The answer has exactly one row per pair.
RowsMatchPairs ==
    /\ Len(exportPollFetcher.data.rows) =
          Cardinality(LevelPairs) + Cardinality(PlaceholderPairs)
    /\ Elements(exportPollFetcher.data.rows) = PairRows

\* C21 as stated: the rows of an export are in one-to-one correspondence
\* with the (variant, level) pairs passing the location filter and the
\* placeholders of the unfiltered mode; no row corresponds to no variant.
C21_OneRowPerPair == TreeProjected => RowsMatchPairs

\* C21: the rows of an export are in one-to-one correspondence with the
\* (variant, level) pairs passing the location filter and the placeholders of
\* the unfiltered mode, except when there is no such pair at all: the answer
\* is then the single row "No data found", which stands for no variant.
C21_OneRowPerPairOrNoData ==
    TreeProjected =>
        IF LevelPairs = {} /\ PlaceholderPairs = {}
        THEN exportPollFetcher.data.rows = <<NoDataFoundRow>>
        ELSE RowsMatchPairs

\* An export filtered by location L1 of a product with two variants, one of
\* them stocked at L1: one row, the other variant is left out.
C21_Witness ==
    /\ TreeProjected
    /\ exportPollFetcher.locationId = "L1"
    /\ Cardinality(AttachedVariants) = 2
    /\ Cardinality(LevelPairs) = 1
    /\ Len(exportPollFetcher.data.rows) = 1
    /\ exportPollFetcher.data.rows[1].sku = "s1"

\* C22: a second import of the same rows, made after the first import's
\* write job has completed and the store holds the quantity of every diff of
\* the first run, queues no diff.
C22_SecondImportAcceptsNothing ==
    (importRun = 2 /\ ValidationDone) => bulkUpdates = << >>

\* Row i passes the structural and location checks and its SKU is indexed
\* without a quantity at the location it resolves to.
IndexedNotStocked(i) ==
    /\ Resolves(i)
    /\ RowSkuKey(i) \in DOMAIN skuMap
    /\ ResolvedLocation(i) \notin DOMAIN skuMap[RowSkuKey(i)].levels

\* Row i passes the structural and location checks and its SKU is not
\* indexed.
AbsentFromIndex(i) == Resolves(i) /\ RowSkuKey(i) \notin DOMAIN skuMap

\* C23 as stated: a row whose SKU is indexed without a quantity at the
\* resolved location is Rejected as not stocked, a row whose SKU is not
\* indexed is Rejected as variant not found; neither produces a diff.
C23_UnstockedAndUnknownRejected ==
    ValidationDone =>
        \A i \in RowIds :
            /\ IndexedNotStocked(i) =>
                  /\ i \in RejectedIds /\ ReasonOf(i) = "SKU don't have this location"
                  /\ i \notin AcceptedIds
            /\ AbsentFromIndex(i) =>
                  /\ i \in RejectedIds /\ ReasonOf(i) = "Variant not found"
                  /\ i \notin AcceptedIds

\* C23: a row whose SKU is indexed without a quantity at the resolved
\* location, or is not indexed at all, is Rejected and never produces a diff:
\* as a duplicate row if an earlier row already used its combination key,
\* otherwise as not stocked, respectively as variant not found.
C23_UnstockedAndUnknownRejectedInTurn ==
    ValidationDone =>
        \A i \in RowIds :
            /\ IndexedNotStocked(i) =>
                  /\ i \in RejectedIds /\ i \notin AcceptedIds /\ i \notin SkippedIds
                  /\ ReasonOf(i) = IF RepeatsKey(i) THEN DuplicateReason
                                   ELSE "SKU don't have this location"
            /\ AbsentFromIndex(i) =>
                  /\ i \in RejectedIds /\ i \notin AcceptedIds /\ i \notin SkippedIds
                  /\ ReasonOf(i) = IF RepeatsKey(i) THEN DuplicateReason
                                   ELSE "Variant not found"

\* A validated sheet with a row rejected as not stocked and a row rejected
\* as variant not found.
C23_Witness ==
    /\ ValidationDone
    /\ \E i, j \in RowIds :
          /\ IndexedNotStocked(i) /\ ReasonOf(i) = "SKU don't have this location"
          /\ AbsentFromIndex(j) /\ ~RepeatsKey(j) /\ ReasonOf(j) = "Variant not found"
    /\ bulkUpdates = << >>

\* The ids of the known locations whose name is the row's label, ignoring
\* case.
LabelledLocations(i) == { allLocations[j].id : j \in LabelMatches(i) }

\* C24: in all-locations mode a row with a SKU and a valid quantity is
\* Rejected as location required if it has no label, and as location not
\* found if its label is no known location's name ignoring case; otherwise
\* it is handled at the location whose name is the label ignoring case: it
\* is not rejected for its location, and a diff queued for it targets that
\* location's id.
C24_AllLocationsLabelResolved ==
    (ValidationDone /\ isAllLocationsMode) =>
        \A i \in RowIds :
            (HasSku(i) /\ ~InvalidQuantity(i)) =>
                IF RowLabel(i) = << >>
                THEN /\ i \in RejectedIds
                     /\ ReasonOf(i) = "Inventory Location is required for All Locations mode"
                ELSE IF LabelMatches(i) = {}
                THEN i \in RejectedIds /\ ReasonOf(i) = "Location not found in store"
                ELSE /\ i \in RejectedIds => ReasonOf(i) \notin LocationReasons
                     /\ i \in AcceptedIds => DiffOf(i).locationId \in LabelledLocations(i)
                     /\ i \in SkippedIds =>
                           \E l \in LabelledLocations(i) :
                               skuMap[RowSkuKey(i)].levels[l] = RowQuantity(i).v

\* An all-locations import where the label "n" resolved to the location
\* named "N" and a row without label was rejected.
C24_Witness ==
    /\ ValidationDone /\ isAllLocationsMode
    /\ Len(rows) = 2
    /\ rows[1]["Inventory Location"] = Str(<<"n">>)
    /\ 1 \in AcceptedIds /\ DiffOf(1).locationId = "L1"
    /\ RowLabel(2) = << >>
    /\ 2 \in RejectedIds
    /\ ReasonOf(2) = "Inventory Location is required for All Locations mode"

\* The store's name of the selected location, in lower case.
SelectedName ==
    ToLowerCase(StoreLocations[CHOOSE j \in 1..Len(StoreLocations) :
                                  StoreLocations[j].id = locationId].name)

\* Row i has no label and is handled at the selected location: it is not
\* rejected for its location, and a diff queued for it targets that id.
ImplicitMatch(i) ==
    /\ i \in RejectedIds => ReasonOf(i) \notin LocationReasons
    /\ i \in AcceptedIds => DiffOf(i).locationId = locationId
    /\ i \in SkippedIds => skuMap[RowSkuKey(i)].levels[locationId] = RowQuantity(i).v

\* C25: in single-location mode a row with a SKU and a valid
\* quantity whose label is not the selected location's name ignoring case is
\* Rejected as location mismatch, and a row without label is handled at the
\* selected location.
C25_MismatchRejected ==
    (ValidationDone /\ ~isAllLocationsMode) =>
        \A i \in RowIds :
            (HasSku(i) /\ ~InvalidQuantity(i)) =>
                IF RowLabel(i) = << >> THEN ImplicitMatch(i)
                ELSE RowLabel(i) # SelectedName =>
                        i \in RejectedIds /\ ReasonOf(i) = "Location mismatch"

RECURSIVE AllDigits(_)
AllDigits(chars) == chars = << >> \/ (IsDigit(Head(chars)) /\ AllDigits(Tail(chars)))

\* The cell holds an integer: a number without fractional part, or a text
\* that is an optional sign and digits, blanks around it aside.
IsIntegerCell(v) ==
    \/ v.t = "num" /\ ~v.frac
    \/ /\ v.t = "str"
       /\ LET txt == Trim(v.s)
              body == IF txt # << >> /\ Head(txt) \in {"-", "+"} THEN Tail(txt) ELSE txt
          IN  body # << >> /\ AllDigits(body)

\* C26: a row with a SKU whose quantity cell is missing or holds no integer
\* (empty, text without number, text with a numeric prefix, a fractional
\* number) is Rejected as invalid quantity and no diff is queued for it.
C26_NonIntegerQuantityRejected ==
    ValidationDone =>
        \A i \in RowIds :
            (HasSku(i) /\ ~IsIntegerCell(rows[i]["Quantity Available"])) =>
                /\ i \in RejectedIds
                /\ ReasonOf(i) = "Invalid or missing quantity value"
                /\ i \notin AcceptedIds


\* A status check of an export job that has ended is answered in this step.
ExportTerminalPoll ==
    /\ exportPollFetcher.request # NoOp
    /\ exportPollFetcher'.request = NoOp
    /\ jobs[exportPollFetcher.request].status \in TerminalStatuses

\* A status check of an import job that has ended is answered in this step.
ImportTerminalPoll ==
    /\ importPollFetcher.request # NoOp
    /\ importPollFetcher'.request = NoOp
    /\ jobs[importPollFetcher.request].status \in TerminalStatuses

\* The step sends nothing to the remote and changes no job.
NoRemoteRequest == jobs' = jobs /\ expCalls' = expCalls /\ impCalls' = impCalls

\* The answer in this step repeats an earlier answer about the same operation.
ExportRepeatedPoll == exportPollFetcher.data.operationId = exportPollFetcher.request
ImportRepeatedPoll == importPollFetcher.data.operationId = importPollFetcher.request

\* The statuses a status check of an ended job can answer: the job's own,
\* NONE when the query delivers no node, and for the export loader FAILED
\* when the completed job's artifact is not obtained.
ExportAnswers(op) ==
    {jobs[op].status, "NONE"} \cup IF jobs[op].status = "COMPLETED" THEN {"FAILED"} ELSE {}
ImportAnswers(op) == {jobs[op].status, "NONE"}

PollDeliveredNoStatus(op) ==
    /\ op \in JobIds
    /\ jobs[op].status \notin TerminalStatuses
    /\ exportPollFetcher.request = NoOp
    /\ exportPollFetcher.data.operationId = op
    /\ exportPollFetcher.data.status = "NONE"

\* A status check of operation op is on its way, or the page has been told
\* a terminal status of the job.
PolledAgain(op) ==
    \/ exportPollFetcher.request = op
    \/ /\ exportPollFetcher.data.operationId = op
       /\ exportPollFetcher.data.status \in TerminalStatuses

\* C28: a status check that delivers no status of the job it asked about is
\* not the end of the polling: another status check of the same job is issued
\* later on.
C28_FailedPollRetried ==
    \A op \in 1..MaxJobs : PollDeliveredNoStatus(op) ~> PolledAgain(op)


\* A file is picked in this step: a new import run starts.
NewRunStarts == importFetcher.state = "idle" /\ importFetcher'.state = "submitting"

\* The report is set in this step from the validation alone, the run having
\* started no job.
SetFromValidation ==
    /\ importFetcher.state = "submitting"
    /\ importFetcher'.state = "idle"
    /\ results.bulkOperationId = NoOp
    /\ finalResults' = <<results>>

\* The report is set in this step by merging the counts of the COMPLETED
\* answer about the run's job into the validation's results.
SetByMerge ==
    /\ importPollFetcher.request # NoOp
    /\ importPollFetcher.request = PolledOperation
    /\ importPollFetcher'.request = NoOp
    /\ importPollFetcher'.data.status = "COMPLETED"
    /\ finalResults' =
          << [validatedResults[1] EXCEPT
                 !.updated = @ + importPollFetcher'.data.bulkResults.updated,
                 !.errors = @ \o importPollFetcher'.data.bulkResults.errors] >>

\* C29: within one import run the final report is set at most once, either
\* from the validation when no job was started or by the merge on the COMPLETED
\* answer; once set, only the start of a new run changes it.
C29_ReportFinalizedOnce ==
    [][ /\ (finalResults # << >> /\ ~NewRunStarts) => finalResults' = finalResults
        /\ (finalResults = << >> /\ finalResults' # << >>) =>
              (SetFromValidation \/ SetByMerge) ]_vars

\* A run with a job has ended: its report was set by the merge, counts a unit
\* of the job, and the progress has been hidden since.
C29_Witness ==
    /\ finalResults # << >>
    /\ validatedResults # << >>
    /\ validatedResults[1].bulkOperationId # NoOp
    /\ finalResults[1].updated > validatedResults[1].updated
    /\ importPollFetcher.data.status = "COMPLETED"
    /\ ~importProgressVisible
    /\ ~importHideTimer


\* Processing row i throws: the row reaches the comparison of its label with
\* the selected location's name, and that name was not obtained.
RowThrows(i) ==
    /\ HasSku(i)
    /\ ~InvalidQuantity(i)
    /\ ~isAllLocationsMode
    /\ RowLabel(i) # << >>
    /\ selectedLocationName.t = "undef"

\* C30: a row whose processing throws is recorded as rejected with the
\* error's message, in the failed rows and in the errors, and the loop goes on:
\* every later row with a SKU still gets its one outcome.
C30_ThrowingRowDoesNotAbort ==
    ValidationDone =>
        \A i \in RowIds :
            RowThrows(i) =>
                /\ i \in RejectedIds
                /\ i \notin AcceptedIds \cup SkippedIds
                /\ ReasonOf(i) = "TypeError"
                /\ \E k \in 1..Len(results.errors) :
                      results.errors[k] = "Error processing SKU: TypeError"
                /\ \A j \in RowIds : (j > i /\ HasSku(j)) => OutcomeCount(j) = 1

\* A row threw and a later row of the same run was accepted.
C30_Witness ==
    /\ ValidationDone
    /\ \E i \in RowIds, j \in RowIds :
          /\ RowThrows(i)
          /\ j > i
          /\ j \in AcceptedIds


\* ------------------------------------------------------------- claims 31-39
\* The variant records the build has put among the products.
VariantsAsProducts ==
    { variant \in Records("ProductVariant") : variant \in Elements(Tree.products) }

\* C31: every record with a ProductVariant id is registered as a variant and
\* never as a product, whatever its sku; when its product stands in front of it
\* in the artifact it is attached to that product and, without location filter,
\* has a row.
C31_VariantTagMakesVariant ==
    TreeProjected =>
        /\ VariantsAsProducts = {}
        /\ \A variant \in Records("ProductVariant") :
              /\ variant.id \in DOMAIN Tree.variantsMap
              /\ \A product \in Records("Product") :
                    ( /\ variant.parentId = product.id
                      /\ \E i, j \in 1..Len(exportArtifact) :
                            /\ i < j
                            /\ exportArtifact[i] = product
                            /\ exportArtifact[j] = variant )
                    => /\ variant \in VariantsOf(product)
                       /\ exportPollFetcher.locationId = "ALL_LOCATIONS"
                             => Len(RowsOf(variant)) >= 1


\* Record a stands in front of record b in the artifact.
Precedes(a, b) ==
    \E i, j \in 1..Len(exportArtifact) :
        i < j /\ exportArtifact[i] = a /\ exportArtifact[j] = b

\* The variant is registered as a variant when the level is handled, and the
\* level names it by its id.
NamesSeenVariant(level, variant) ==
    /\ level.parentId = variant.id
    /\ variant.id \in DOMAIN Tree.variantsMap
    /\ Precedes(variant, level)

\* The levels attached to some variant's inventory item.
AttachedLevels ==
    UNION { Elements(Tree.inventoryLevels[id]) : id \in DOMAIN Tree.inventoryLevels }

\* C32: a level whose parent id is no registered inventory item but the id
\* of a variant registered before it is attached to that variant's inventory
\* item, and has a row of that variant when the variant is attached to a
\* product and the level passes the location filter; it is attached nowhere only
\* when neither lookup finds its parent or the variant has no inventory item.
C32_LevelFallsBackToVariant ==
    TreeProjected =>
        \A level \in Records("InventoryLevel") :
            /\ \A variant \in Records("ProductVariant") :
                  (NamesSeenVariant(level, variant) /\ variant.inventoryItem # NoId) =>
                      /\ level \in Elements(LevelsOf_Variant(variant))
                      /\ \A product \in Elements(Tree.products) :
                            ( /\ variant \in VariantsOf(product)
                              /\ \/ exportPollFetcher.locationId = "ALL_LOCATIONS"
                                 \/ exportPollFetcher.locationId = level.location.id )
                            => LevelRow(product, variant, level)
                                   \in Elements(exportPollFetcher.data.rows)
            /\ level \notin AttachedLevels =>
                  \A variant \in Records("ProductVariant") :
                      \/ ~NamesSeenVariant(level, variant)
                      \/ variant.inventoryItem = NoId

\* A level that names its variant by the variant's id, which is the id of no
\* registered inventory item, has a row of that variant.
C32_Witness ==
    /\ TreeProjected
    /\ NamesSeenVariant(Level1, Variant1)
    /\ Level1.parentId \notin DOMAIN Tree.inventoryItemsMap
    /\ Level1 \in Elements(LevelsOf_Variant(Variant1))
    /\ LevelRow(Product1, Variant1, Level1) \in Elements(exportPollFetcher.data.rows)


\* The action is about to send a submission.
AboutToSubmit == expPc \in {"run", "rerun"}

\* The last request the action has sent.
LastCall == expCalls[Len(expCalls)]

\* C33: a cancel request never ends the export action. When the request
\* fails the action goes straight on to the submission; when it was sent the
\* settle delay is waited for first, whatever the cancel did to the job; and
\* the step after either is the submission request.
C33_CancelIsBestEffort ==
    [][ /\ (expPc = "cancel" /\ expPc' # "cancel") =>
              /\ LastCall' = Call("bulkOperationCancel", expCancelId)
              /\ expPc' \in {"settle", "run", "rerun"}
              /\ jobs' # jobs => expPc' = "settle"
        /\ (expPc = "settle" /\ expPc' # "settle") =>
              /\ LastCall' = Call("settle", expCancelId)
              /\ AboutToSubmit'
        /\ (AboutToSubmit /\ expPc' # expPc) =>
              LastCall' = Call("bulkOperationRunQuery", NoOp) ]_vars

\* A cancel request failed and one was sent: the first is followed at once
\* by a submission, the second by the delay and then a submission, while the
\* job that was to be cancelled has not ended.
C33_Witness ==
    /\ \E k \in 1..(Len(expCalls) - 1) :
          /\ expCalls[k].op = "bulkOperationCancel"
          /\ expCalls[k + 1].op = "bulkOperationRunQuery"
    /\ \E k \in 1..(Len(expCalls) - 2) :
          /\ expCalls[k].op = "bulkOperationCancel"
          /\ expCalls[k + 1].op = "settle"
          /\ expCalls[k + 2].op = "bulkOperationRunQuery"
          /\ jobs[expCalls[k].id].status \notin TerminalStatuses


\* The export action returns to the page in this step, its last submission
\* having been answered with user errors.
ReturnsUserErrors ==
    /\ expPc = "respond"
    /\ expCaller = "client"
    /\ expPc' = "idle"
    /\ Len(expResult.userErrors) > 0

\* The page holds the failure of its last export.
ExportRefused ==
    /\ exportFetcher.state = "idle"
    /\ exportFetcher.data # NoResponse
    /\ ~exportFetcher.data.success

\* Nothing polls: no current export, no status check on its way, no timer.
NotPolling ==
    /\ currentExport = NoExport
    /\ exportPollFetcher.request = NoOp
    /\ ~exportPollTimer

\* C34: when the last submission of an export (the first one, or the one
\* retry) is answered with user errors, the action returns a failure with the
\* first user error's message and no operation id, and as long as the page holds
\* that failure it polls nothing.
C34_RefusedExportNotPolled ==
    /\ [][ ReturnsUserErrors =>
              /\ ~exportFetcher'.data.success
              /\ exportFetcher'.data.error = expResult.userErrors[1]
              /\ exportFetcher'.data.operationId = NoOp
              /\ exportFetcher'.data.status # "CREATED" ]_vars
    /\ [](ExportRefused => (exportFetcher.data.operationId = NoOp /\ NotPolling))

\* The retry of an export was refused as in progress: the page shows that
\* message, has hidden the progress and polls nothing, while a read job of the
\* remote has not ended.
C34_Witness ==
    /\ ExportRefused
    /\ exportFetcher.data.error = InProgressError
    /\ exportToast = InProgressError
    /\ ~exportProgressVisible
    /\ NotPolling
    /\ ActiveJobs("READ") # {}


\* A status check is answered in this step about an operation that is not
\* the page's current one.
ExportAnswerForOther ==
    /\ exportPollFetcher.request # NoOp
    /\ exportPollFetcher'.request = NoOp
    /\ \/ currentExport = NoExport
       \/ exportPollFetcher'.data.operationId # currentExport.operationId

ImportAnswerForOther ==
    /\ importPollFetcher.request # NoOp
    /\ importPollFetcher'.request = NoOp
    /\ importPollFetcher'.data.operationId # PolledOperation

\* C35: an answer about an operation other than the current one sets no poll
\* timer, downloads nothing, merges nothing into the report and leaves the
\* current job, the progress, the toast and the hide timer as they are.
C35_OtherOperationIgnored ==
    [][ /\ ExportAnswerForOther =>
              /\ exportPollTimer' => exportPollTimer
              /\ downloads' = downloads
              /\ UNCHANGED << currentExport, exportProgressVisible, exportToast,
                              exportHideTimer >>
        /\ ImportAnswerForOther =>
              /\ importPollTimer' => importPollTimer
              /\ UNCHANGED << finalResults, validatedResults, importProgressVisible,
                              importHideTimer >> ]_vars

\* While the second export is under way a COMPLETED answer about the first
\* one has come in: nothing was downloaded and the second export is still the
\* current one.
C35_Witness ==
    /\ currentExport # NoExport
    /\ currentExport.operationId = 2
    /\ jobs[2].status \in {"CREATED", "RUNNING"}
    /\ exportPollFetcher.request = NoOp
    /\ exportPollFetcher.data.operationId = 1
    /\ exportPollFetcher.data.status = "COMPLETED"
    /\ Len(pollLog) >= 2
    /\ pollLog[Len(pollLog)] = "COMPLETED"
    /\ downloads = 0
    /\ exportProgressVisible


\* The validation has queued no diff and the action has returned.
NothingQueued == impPc = "returned" /\ Len(bulkUpdates) = 0

\* The requests of the job pipeline.
PipelineRequests == {"stagedUploadsCreate", "upload", "bulkOperationRunMutation"}

\* C36: an import whose validation queues no diff sends no staged-target
\* request, no upload and no job trigger, starts no job and returns the
\* validation's results without operation id; the page makes them the final
\* report at once and sends no status check.
C36_NothingQueuedNoJob ==
    NothingQueued =>
        /\ \A k \in 1..Len(impCalls) : impCalls[k] \notin PipelineRequests
        /\ jobs = << >>
        /\ results.bulkOperationId = NoOp
        /\ importFetcher.state = "idle" =>
              /\ importFetcher.data = <<results>>
              /\ validatedResults = <<results>>
              /\ finalResults = <<results>>
              /\ importPollFetcher = [request |-> NoOp, data |-> NoBulkData]
              /\ ~importPollTimer

\* The one row of the sheet was skipped as unchanged: the page holds the
\* validation's results as the final report and has polled nothing.
C36_Witness ==
    /\ NothingQueued
    /\ importFetcher.state = "idle"
    /\ finalResults = <<results>>
    /\ Len(results.skippedRows) = 1
    /\ results.updated = 0
    /\ Len(impCalls) >= 2
    /\ importPollFetcher.data = NoBulkData


\* The places of the listing, in listing order, and the variants with a SKU.
ListingPlaces ==
    { pk \in (1..Len(listing)) \X (1..3) : pk[2] <= Len(listing[pk[1]]) }

ListedAt(pk) == listing[pk[1]][pk[2]]

SkuPlaces == { pk \in ListingPlaces : Truthy(ListedAt(pk).sku) }

Later(pk, qk) == pk[1] > qk[1] \/ (pk[1] = qk[1] /\ pk[2] > qk[2])

\* The variant listed last among those whose SKU folds to key.
LastListed(key) ==
    ListedAt(CHOOSE pk \in SkuPlaces :
                /\ ToLowerCase(JsString(ListedAt(pk).sku)) = key
                /\ \A qk \in SkuPlaces :
                      ToLowerCase(JsString(ListedAt(qk).sku)) = key => ~Later(qk, pk))

\* The SKU of row i and the SKU of a listed variant are equal ignoring case.
EqualIgnoringCase(i, variant) ==
    ToLowerCase(JsString(rows[i]["SKU"])) = ToLowerCase(JsString(variant.sku))

\* C37: after a complete prefetch the index has one entry per case-folded
\* SKU, that of the variant listed last with it, and a row whose SKU equals a
\* listed variant's SKU ignoring case is looked up under that entry: it is not
\* rejected as unknown, and its diff names that entry's inventory item.
C37_RowMatchesFoldedSku ==
    (ValidationDone /\ ~PageFetchFailed) =>
        /\ \A key \in DOMAIN skuMap :
              /\ key = ToLowerCase(key)
              /\ skuMap[key].inventoryItemId = LastListed(key).inventoryItemId
        /\ \A i \in RowIds : \A pk \in SkuPlaces :
              (Resolves(i) /\ ~RepeatsKey(i) /\ EqualIgnoringCase(i, ListedAt(pk))) =>
                  /\ RowSkuKey(i) \in DOMAIN skuMap
                  /\ i \in RejectedIds => ReasonOf(i) # "Variant not found"
                  /\ i \in AcceptedIds =>
                        DiffOf(i).inventoryItemId =
                           LastListed(ToLowerCase(JsString(ListedAt(pk).sku))).inventoryItemId


\* A status check is answered in this step and the remote reported the job
\* as COMPLETED.
CompletedJobChecked ==
    /\ exportPollFetcher.request # NoOp
    /\ exportPollFetcher'.request = NoOp
    /\ Len(pollLog') = Len(pollLog) + 1
    /\ pollLog'[Len(pollLog')] = "COMPLETED"

\* The page has ended its export without a file.
EndedWithoutFile ==
    /\ currentExport' = NoExport
    /\ ~exportProgressVisible'
    /\ ~exportPollTimer'
    /\ downloads' = downloads
    /\ exportToast' = "Export failed"

\* C38: an answer COMPLETED always carries rows. When the remote reports the
\* job as COMPLETED without result url the answer is FAILED with an error, and
\* when the url is there the answer is either COMPLETED with the rows of the
\* artifact or, the read having failed, FAILED with an error; on a FAILED answer
\* about its current export the page ends the export and downloads nothing.
C38_CompletedCarriesRows ==
    /\ [](exportPollFetcher.data.status = "COMPLETED" => exportPollFetcher.data.rows # << >>)
    /\ [][ CompletedJobChecked =>
              /\ IF artifactReads' = artifactReads
                 THEN /\ exportPollFetcher'.data.status = "FAILED"
                      /\ exportPollFetcher'.data.error = "No URL in completed bulk operation"
                 ELSE \/ /\ exportPollFetcher'.data.status = "COMPLETED"
                         /\ exportPollFetcher'.data.rows =
                               ExportRows(exportArtifact, exportPollFetcher.locationId)
                      \/ /\ exportPollFetcher'.data.status = "FAILED"
                         /\ exportPollFetcher'.data.error = "Failed to parse bulk data"
              /\ ( /\ exportPollFetcher'.data.status = "FAILED"
                   /\ currentExport # NoExport
                   /\ currentExport.operationId = exportPollFetcher.request )
                 => EndedWithoutFile ]_vars

\* The artifact of the completed job could not be read: the answer was FAILED
\* and the page has ended the export with nothing downloaded.
C38_Witness ==
    /\ exportPollFetcher.data.status = "FAILED"
    /\ exportPollFetcher.data.error = "Failed to parse bulk data"
    /\ jobs[1].status = "COMPLETED"
    /\ artifactReads = 1
    /\ currentExport = NoExport
    /\ ~exportProgressVisible
    /\ exportToast = "Export failed"
    /\ downloads = 0


\* The header carries the signature of the request's body under the app's
\* secret.
SignatureMatches ==
    /\ webhook.hmacHeader.t = "str"
    /\ webhook.secret.t = "str"
    /\ webhook.secret.s # << >>
    /\ webhook.hmacHeader.s = Hmac(webhook.secret.s, webhook.body)

\* What makes the action refuse a POST as unauthorized: no header, no secret,
\* another signature, or an exception in the verification or the
\* authentication.
Unauthorized ==
    \/ webhook.hmacHeader \in {Undef, Str(<< >>)}
    \/ webhook.secret \in {Undef, Str(<< >>)}
    \/ ~SignatureMatches
    \/ ~webhook.readable
    \/ webhook.authenticated = "threw"

\* C39: the webhook action answers 200 only to a POST whose verification
\* returned true, whose authentication succeeded and whose topic is one of the
\* three handled ones; any other method gets 405; a POST without header or
\* secret, with a signature that does not match, or whose verification or
\* authentication threw gets 401; a verified and authenticated POST with
\* another topic gets 400.
C39_WebhookAnswer ==
    webhook.pc = "answered" =>
      /\ webhook.status = 200 =>
           /\ webhook.method = "POST"
           /\ webhook.trustworthy
           /\ SignatureMatches
           /\ webhook.authenticated = "yes"
           /\ webhook.topic \in HandledTopics
      /\ webhook.method # "POST" => webhook.status = 405
      /\ (webhook.method = "POST" /\ Unauthorized) => webhook.status = 401
      /\ ( /\ webhook.method = "POST"
           /\ webhook.trustworthy
           /\ webhook.authenticated = "yes"
           /\ webhook.topic \notin HandledTopics ) => webhook.status = 400

\* A signed POST about a handled topic has been verified, authenticated and
\* answered with 200.
C39_Witness ==
    /\ webhook.pc = "answered"
    /\ webhook.method = "POST"
    /\ SignatureMatches
    /\ webhook.trustworthy
    /\ webhook.authenticated = "yes"
    /\ webhook.topic \in HandledTopics
    /\ webhook.status = 200

====
